---- MODULE Spec2Model ----
(***************************************************************************)
(* Model of the LLM analysis workflow engine of pyairtable-python-services *)
(* (llm-orchestrator): the fault-tolerance layer (error_handling.py), the  *)
(* batch orchestrator and the rate limiter (table_analysis.py) and the     *)
(* workflow job registry (routes/workflow.py, workflow_orchestrator.py).   *)
(*                                                                         *)
(* The module holds several specifications over one list of variables.    *)
(* Each specification moves the variables of its own component and leaves *)
(* the others at their initial value:                                      *)
(*   Spec          ErrorHandlingService.execute_with_fallback, call by call *)
(*   SpecClassify  ErrorHandlingService._categorize_error on messages      *)
(*   SpecWorkflow  the workflow job registry and its background task       *)
(*   SpecBatch     TableAnalysisService.analyze_tables_batch               *)
(*   SpecRate      TableAnalysisService._rate_limit under concurrency      *)
(***************************************************************************)
EXTENDS Integers, Sequences, FiniteSets, TLC

VARIABLES
    \* ---- fault-tolerance layer (ErrorHandlingService) ----
    now,               \* time.time(), in seconds
    circuit_breakers,  \* self.circuit_breakers: operation name -> circuit
    error_records,     \* self.error_records: how many records per category
    cache_store,       \* CachedResultsFallback.cache_store
    frame,             \* one execute_with_fallback call frame per caller
    consecutive_failures, \* history: per operation name, the calls whose
                       \* retry loop ended on an error since the last success
    \* ---- error classification on its own ----
    cl_error,          \* the exception handed to _categorize_error
    cl_category,       \* its result ("none" before the call)
    cl_retry,          \* the result of _should_retry on it
    \* ---- workflow job registry (routes/workflow.py) ----
    workflow_jobs,     \* workflow_jobs: workflow id -> job
    wf_task,           \* the background task _run_complete_workflow of each job
    wf_response,       \* the last HTTP response a handler gave
    \* ---- batch orchestrator (analyze_tables_batch and its caller) ----
    tables,            \* the table ids handed to analyze_tables_batch, in order
    batch_size,
    max_concurrent,
    batch_pc,          \* where analyze_tables_batch / _run_batch_analysis is
    batch_i,           \* the loop variable i (0-based offset of the batch)
    task,              \* analyze_single_table of each table: its position
    semaphore,         \* asyncio.Semaphore(max_concurrent)._value
    results,           \* the result map's keys
    failed_tables,     \* WorkflowOrchestrator.failed_tables (table ids)
    \* ---- rate limiter (_rate_limit under concurrent table analyses) ----
    rl_now,            \* time.time(), in ticks of 1/TimeScale second
    last_request_time, \* self.last_request_time
    worker,            \* each concurrent analyze_table_comprehensive
    request_log,       \* history: the times at which provider requests began
    \* ---- functions without state, called on their own ----
    pf_last,           \* the latest call: the function, its arguments, its result
    pf_prev,           \* the call before it
    \* ---- batch validation (QualityAssuranceService.validate_batch_results) ----
    qa_pc,             \* where validate_batch_results is
    qa_input,          \* history, what validate_analysis_result said of each finding met
    validation_summary,\* the summary validate_batch_results builds
    \* ---- batch analysis jobs ----
    analysis_jobs,     \* routes/table_analysis.py analysis_jobs, the batch job registry
    aj_task            \* the position of each _run_batch_analysis background task

ftVars == <<now, circuit_breakers, error_records, cache_store, frame,
           consecutive_failures>>
clVars == <<cl_error, cl_category, cl_retry>>
wfVars == <<workflow_jobs, wf_task, wf_response>>
baVars == <<tables, batch_size, max_concurrent, batch_pc, batch_i, task,
           semaphore, results, failed_tables>>
rlVars == <<rl_now, last_request_time, worker, request_log>>
pfVars == <<pf_last, pf_prev>>
qaVars == <<qa_pc, qa_input, validation_summary>>
ajVars == <<analysis_jobs, aj_task>>
vars == <<ftVars, clVars, wfVars, baVars, rlVars, pfVars, qaVars, ajVars>>

(***************************************************************************)
(* Bounds of the model.                                                    *)
(***************************************************************************)
MaxErrors == 6
MaxAttempts == 2
MaxClock == 62
MaxWords == 2

Callers == {"c1", "c2"}
\* the callers of Spec: one coroutine that awaits each call before the next
SeqCallers == {"c1"}
OpNames == {"analysis", "update"}

(***************************************************************************)
(* Strings: Python's str.lower() and the substring test `k in s`.          *)
(***************************************************************************)
LowerChar(c) ==
    CASE c = "A" -> "a" [] c = "B" -> "b" [] c = "C" -> "c" [] c = "D" -> "d"
      [] c = "E" -> "e" [] c = "F" -> "f" [] c = "G" -> "g" [] c = "H" -> "h"
      [] c = "I" -> "i" [] c = "J" -> "j" [] c = "K" -> "k" [] c = "L" -> "l"
      [] c = "M" -> "m" [] c = "N" -> "n" [] c = "O" -> "o" [] c = "P" -> "p"
      [] c = "Q" -> "q" [] c = "R" -> "r" [] c = "S" -> "s" [] c = "T" -> "t"
      [] c = "U" -> "u" [] c = "V" -> "v" [] c = "W" -> "w" [] c = "X" -> "x"
      [] c = "Y" -> "y" [] c = "Z" -> "z"
      [] OTHER -> c

RECURSIVE Lower(_)
Lower(s) ==
    IF Len(s) = 0 THEN ""
    ELSE LowerChar(SubSeq(s, 1, 1)) \o Lower(SubSeq(s, 2, Len(s)))

\* Python: k in s
In(k, s) ==
    \E i \in 1..(Len(s) + 1 - Len(k)) : SubSeq(s, i, i + Len(k) - 1) = k

(***************************************************************************)
(* Errors.  An exception is its type name and its message.                 *)
(***************************************************************************)
Err(t, m) == [type |-> t, msg |-> m]

\* last_error = None before any attempt has failed; str(None) is "None"
NoError == Err("NoneType", "None")

\* ErrorCategory: the member names of the enumeration
ErrorCategory ==
    {"NETWORK", "API_LIMIT", "AUTHENTICATION", "PARSING", "VALIDATION",
     "TIMEOUT", "RESOURCE", "UNKNOWN"}

\* a classifier that tests the API-limit keywords before "timeout"
categorize_error_limit_first(error) ==
    LET error_str == Lower(error.msg)
        error_type == Lower(error.type)
    IN  IF In("rate", error_str) \/ In("quota", error_str) \/ In("limit", error_str)
          THEN "API_LIMIT"
        ELSE IF In("timeout", error_str) \/ In("timeout", error_type)
          THEN "TIMEOUT"
        ELSE IF In("auth", error_str) \/ In("unauthorized", error_str)
                \/ In("forbidden", error_str)
          THEN "AUTHENTICATION"
        ELSE IF In("json", error_str) \/ In("parse", error_str) \/ In("decode", error_str)
          THEN "PARSING"
        ELSE IF In("network", error_str) \/ In("connection", error_str)
                \/ In("http", error_type)
          THEN "NETWORK"
        ELSE IF In("memory", error_str) \/ In("resource", error_str)
          THEN "RESOURCE"
        ELSE "UNKNOWN"

\* ErrorHandlingService._categorize_error: the first matching branch wins
categorize_error(error) ==
    LET error_str == Lower(error.msg)
        error_type == Lower(error.type)
    IN  IF In("timeout", error_str) \/ In("timeout", error_type)
          THEN "TIMEOUT"
        ELSE IF In("rate", error_str) \/ In("quota", error_str) \/ In("limit", error_str)
          THEN "API_LIMIT"
        ELSE IF In("auth", error_str) \/ In("unauthorized", error_str)
                \/ In("forbidden", error_str)
          THEN "AUTHENTICATION"
        ELSE IF In("json", error_str) \/ In("parse", error_str) \/ In("decode", error_str)
          THEN "PARSING"
        ELSE IF In("network", error_str) \/ In("connection", error_str)
                \/ In("http", error_type)
          THEN "NETWORK"
        ELSE IF In("memory", error_str) \/ In("resource", error_str)
          THEN "RESOURCE"
        ELSE "UNKNOWN"

\* a classifier whose non-retryable set is empty
should_retry_always(error) == TRUE

\* a classifier that retries the listed retryable categories only
should_retry_listed_only(error) ==
    categorize_error(error) \in {"NETWORK", "TIMEOUT", "API_LIMIT", "UNKNOWN"}

\* ErrorHandlingService._should_retry
should_retry(error) ==
    LET category == categorize_error(error)
        retryable_categories == {"NETWORK", "TIMEOUT", "API_LIMIT", "UNKNOWN"}
        non_retryable_categories == {"AUTHENTICATION", "VALIDATION"}
    IN  IF category \in non_retryable_categories THEN FALSE
        ELSE IF category \in retryable_categories THEN TRUE
        ELSE TRUE

\* retry_config
base_delay == 1
max_delay == 30
backoff_multiplier == 2

Min(a, b) == IF a < b THEN a ELSE b
Max(a, b) == IF a > b THEN a ELSE b

\* the exponent from which the double 2.0 ** n is out of range
DBL_MAX_EXP == 1024

\* retry_config holds floats: backoff_multiplier ** (attempt - 1) is a float
\* power, which raises OverflowError when the result is no finite double
retry_delay_raises(attempt) == attempt - 1 >= DBL_MAX_EXP

\* base_delay * backoff_multiplier ** n, multiplied out as long as the
\* product is below max_delay: every further power is above max_delay too.
\* The products are powers of two, exact in doubles.
RECURSIVE backoff(_, _)
backoff(delay, n) ==
    IF n = 0 \/ delay >= max_delay THEN delay
    ELSE backoff(delay * backoff_multiplier, n - 1)

\* a backoff that returns the product without min(delay, max_delay)
calculate_retry_delay_uncapped(attempt) == backoff(base_delay, attempt - 1)

\* ErrorHandlingService._calculate_retry_delay, when the power is finite
calculate_retry_delay(attempt) ==
    Min(backoff(base_delay, attempt - 1), max_delay)

(***************************************************************************)
(* Fallback strategies.  A call's outcome is what execute_with_fallback    *)
(* hands to its caller: the operation's result, a fallback payload, or an  *)
(* exception that leaves the call.                                         *)
(***************************************************************************)
NoOutcome ==
    [kind |-> "none", fallback_used |-> FALSE, fallback_type |-> "",
     analysis_results |-> FALSE, exc |-> ""]

OpResult == [NoOutcome EXCEPT !.kind = "op_result"]

Raises(exc_type) == [NoOutcome EXCEPT !.kind = "raised", !.exc = exc_type]

\* a dict with analysis_results and without the two tags
PayloadUntagged(name) ==
    [NoOutcome EXCEPT !.kind = "fallback", !.analysis_results = TRUE]

\* the dict a strategy returns: fallback_used, fallback_type, analysis_results
Payload(name) ==
    [NoOutcome EXCEPT !.kind = "fallback", !.fallback_used = TRUE,
                      !.fallback_type = name, !.analysis_results = TRUE]

\* SimplifiedAnalysisFallback._categorize_error
simplified_categorize_error(error) ==
    LET error_str == Lower(error.msg)
    IN  IF In("timeout", error_str) \/ In("timed out", error_str) THEN "TIMEOUT"
        ELSE IF In("rate limit", error_str) \/ In("quota", error_str) THEN "API_LIMIT"
        ELSE IF In("authentication", error_str) \/ In("unauthorized", error_str)
          THEN "AUTHENTICATION"
        ELSE IF In("json", error_str) \/ In("parse", error_str) THEN "PARSING"
        ELSE IF In("network", error_str) \/ In("connection", error_str) THEN "NETWORK"
        ELSE "UNKNOWN"

\* the ErrorCategory members the severity_map literal of
\* SimplifiedAnalysisFallback._assess_severity names as its keys
severity_map_keys ==
    {"CRITICAL", "API_LIMIT", "AUTHENTICATION", "TIMEOUT", "NETWORK",
     "PARSING", "VALIDATION", "UNKNOWN"}

\* SimplifiedAnalysisFallback._assess_severity: building severity_map looks
\* every key up on the enumeration; a name that is no member raises
\* AttributeError before the lookup of the category
simplified_assess_severity(error) ==
    LET category == simplified_categorize_error(error)
    IN  IF ~(severity_map_keys \subseteq ErrorCategory)
          THEN [raised |-> TRUE, exc |-> "AttributeError", value |-> ""]
          ELSE [raised |-> FALSE, exc |-> "",
                value |-> CASE category \in {"API_LIMIT", "AUTHENTICATION"} -> "high"
                            [] category \in {"PARSING", "VALIDATION"} -> "low"
                            [] OTHER -> "medium"]

\* SimplifiedAnalysisFallback.execute
simplified_execute(context, error) ==
    LET severity == simplified_assess_severity(error)
    IN  IF severity.raised THEN Raises(severity.exc)
        ELSE Payload("simplified_analysis")

\* CachedResultsFallback.execute
cached_execute(context, error, store) ==
    LET cache_key == <<context.table_id, context.category>>
    IN  IF cache_key \in store THEN Payload("cached_results")
        ELSE simplified_execute(context, error)

\* PartialResultsFallback.execute.  context.partial describes
\* additional_info["partial_response"]: "array" when it holds a '[' ... ']'
\* span that json.loads accepts, "absent" when the key is missing, there
\* is no such span or json.loads rejects it (JSONDecodeError is caught).
partial_execute(context, error) ==
    IF context.partial = "array" THEN Payload("partial_results")
    ELSE simplified_execute(context, error)

\* the names _setup_fallback_strategies registers
fallback_strategies == {"simplified", "cached", "partial"}

strategy_execute(name, context, error, store) ==
    CASE name = "simplified" -> simplified_execute(context, error)
      [] name = "cached" -> cached_execute(context, error, store)
      [] name = "partial" -> partial_execute(context, error)

\* execute_with_fallback, after the retry loop (lines 304-318)
use_fallback(fallback_strategy, context, last_error, store) ==
    IF fallback_strategy \in fallback_strategies
      THEN LET first == strategy_execute(fallback_strategy, context, last_error, store)
           IN  IF first.kind = "raised"
                 THEN simplified_execute(context, last_error)
                 ELSE first
      ELSE \* raise last_error; raising None is a TypeError
           IF last_error = NoError THEN Raises("TypeError")
           ELSE Raises(last_error.type)

(***************************************************************************)
(* Circuit breakers.  self.circuit_breakers is a dict keyed by operation   *)
(* name; a name that is not a key yet has exists = FALSE.                  *)
(***************************************************************************)
circuit_timeout == 60
circuit_threshold == 5

NoCircuit ==
    [exists |-> FALSE, failure_count |-> 0, is_open |-> FALSE, opened_at |-> 0,
     half_open |-> FALSE]

\* a breaker that never reports open
is_circuit_open_never(cbs, operation, t) == FALSE

\* a breaker without the half-open transition
is_circuit_open_no_timeout(cbs, operation, t) == cbs[operation].is_open

\* ErrorHandlingService._is_circuit_open: the value it returns
is_circuit_open(cbs, operation, t) ==
    LET circuit == cbs[operation]
    IN  IF ~circuit.is_open THEN FALSE
        ELSE IF t - circuit.opened_at > circuit_timeout THEN FALSE
        ELSE TRUE

\* ErrorHandlingService._is_circuit_open: the dict after the call (an open
\* circuit whose timeout has elapsed becomes half-open)
circuit_after_check(cbs, operation, t) ==
    LET circuit == cbs[operation]
    IN  IF circuit.is_open /\ t - circuit.opened_at > circuit_timeout
          THEN [cbs EXCEPT ![operation].is_open = FALSE,
                           ![operation].half_open = TRUE]
          ELSE cbs

\* a breaker that opens one failure late
update_circuit_breaker_late(cbs, operation, t) ==
    LET created == IF cbs[operation].exists THEN cbs[operation]
                   ELSE [NoCircuit EXCEPT !.exists = TRUE]
        counted == [created EXCEPT !.failure_count = @ + 1]
    IN  [cbs EXCEPT ![operation] =
            IF counted.failure_count > circuit_threshold
              THEN [counted EXCEPT !.is_open = TRUE, !.opened_at = t]
              ELSE counted]

\* a breaker that opens at every failure
update_circuit_breaker_eager(cbs, operation, t) ==
    LET created == IF cbs[operation].exists THEN cbs[operation]
                   ELSE [NoCircuit EXCEPT !.exists = TRUE]
    IN  [cbs EXCEPT ![operation] =
            [created EXCEPT !.failure_count = @ + 1, !.is_open = TRUE, !.opened_at = t]]

\* ErrorHandlingService._update_circuit_breaker
update_circuit_breaker(cbs, operation, t) ==
    LET created == IF cbs[operation].exists THEN cbs[operation]
                   ELSE [NoCircuit EXCEPT !.exists = TRUE]
        counted == [created EXCEPT !.failure_count = @ + 1]
    IN  [cbs EXCEPT ![operation] =
            IF counted.failure_count >= circuit_threshold
              THEN [counted EXCEPT !.is_open = TRUE, !.opened_at = t]
              ELSE counted]

\* a reset that closes the circuit and keeps the count
reset_circuit_breaker_keep_count(cbs, operation) ==
    IF cbs[operation].exists
      THEN [cbs EXCEPT ![operation].is_open = FALSE,
                       ![operation].half_open = FALSE]
      ELSE cbs

\* ErrorHandlingService._reset_circuit_breaker
reset_circuit_breaker(cbs, operation) ==
    IF cbs[operation].exists
      THEN [cbs EXCEPT ![operation].failure_count = 0,
                       ![operation].is_open = FALSE,
                       ![operation].half_open = FALSE]
      ELSE cbs

(***************************************************************************)
(* execute_with_fallback.  The coroutine yields at `await operation()` and *)
(* at `await asyncio.sleep(delay)`; everything between two yields is one   *)
(* step.  The strategies' execute() never suspends.                        *)
(***************************************************************************)
\* what the wrapped operation may raise in Spec: an error that is retried
\* (UNKNOWN) and one that is not (AUTHENTICATION); SpecRetry raises errors
\* of every category
OpErrors ==
    {Err("Exception", "Simulated failure"),
     Err("Exception", "Unauthorized")}

\* additional_info["partial_response"] as the caller may give it
PartialInputs == {"absent", "array"}

\* (fallback_strategy, partial_response) pairs a caller may pass
StrategyInputs ==
    ({"simplified", "cached", "no_such_strategy"} \X {"absent"})
        \cup ({"partial"} \X PartialInputs)

IdleFrame ==
    [pc |-> "idle", operation |-> "analysis", max_attempts |-> 0,
     attempt_number |-> 0, fallback_strategy |-> "simplified",
     partial |-> "absent", last_error |-> NoError, wake_at |-> 0,
     invocations |-> 0, started_open |-> FALSE, broke_open |-> FALSE,
     errors_seen |-> {},
     outcome |-> NoOutcome]

\* the ErrorContext a strategy reads
ContextOf(f) ==
    [operation |-> f.operation, table_id |-> "tblTest", category |-> "structure",
     partial |-> f.partial]

\* lines 304-318: the call ends with what the fallback gives or raises
EndWithFallback(f) ==
    [f EXCEPT !.pc = "done",
              !.outcome = use_fallback(f.fallback_strategy, ContextOf(f),
                                       f.last_error, cache_store)]

\* lines 283-285: the call ends with the operation's own result
EndWithResult(f) ==
    [f EXCEPT !.pc = "done", !.outcome = OpResult]

\* lines 273-281: one pass through the top of the retry loop at time t,
\* for caller c whose frame f has attempt_number set
LoopTop(c, f, t) ==
    IF is_circuit_open(circuit_breakers, f.operation, t)
      THEN \* break
           /\ frame' = [frame EXCEPT
                  ![c] = EndWithFallback([f EXCEPT !.broke_open = TRUE])]
           /\ circuit_breakers' = circuit_breakers
      ELSE \* result = await operation()
           /\ frame' = [frame EXCEPT
                  ![c] = [f EXCEPT !.pc = "await_op", !.invocations = @ + 1]]
           /\ circuit_breakers' = circuit_after_check(circuit_breakers, f.operation, t)

RECURSIVE SumOver(_, _)
SumOver(f, S) ==
    IF S = {} THEN 0
    ELSE LET x == CHOOSE y \in S : TRUE IN f[x] + SumOver(f, S \ {x})

\* len(self.error_records)
TotalErrors == SumOver(error_records, ErrorCategory)

\* a log that takes two records for one error
record_error_twice(records, error) ==
    [records EXCEPT ![categorize_error(error)] = @ + 2]

\* ErrorHandlingService._record_error: self.error_records.append(record);
\* the model keeps, of each record, its category
record_error(records, error) ==
    [records EXCEPT ![categorize_error(error)] = @ + 1]

\* history: the circuit of `op` is open and its timeout has not elapsed
OpenNotElapsed(op) ==
    /\ circuit_breakers[op].is_open
    /\ now - circuit_breakers[op].opened_at <= circuit_timeout

\* a caller enters execute_with_fallback(operation, context, fallback_strategy)
StartCall(c, ops, inputs) ==
    /\ frame[c].pc \in {"idle", "done"}
    /\ TotalErrors < MaxErrors
    /\ \E op \in ops, ma \in 0..MaxAttempts, si \in inputs :
          LET f == [IdleFrame EXCEPT
                       !.operation = op, !.max_attempts = ma,
                       !.fallback_strategy = si[1], !.partial = si[2],
                       !.started_open = OpenNotElapsed(op)]
          IN  IF ma < 1
                THEN \* range(1, max_attempts + 1) is empty
                     /\ frame' = [frame EXCEPT ![c] = EndWithFallback(f)]
                     /\ circuit_breakers' = circuit_breakers
                ELSE LoopTop(c, [f EXCEPT !.attempt_number = 1], now)
    /\ UNCHANGED <<now, error_records, cache_store, consecutive_failures>>

\* await operation() returns: lines 283-285
OpReturns(c) ==
    /\ frame[c].pc = "await_op"
    /\ circuit_breakers' = reset_circuit_breaker(circuit_breakers, frame[c].operation)
    /\ frame' = [frame EXCEPT ![c] = EndWithResult(frame[c])]
    /\ consecutive_failures' =
          [consecutive_failures EXCEPT ![frame[c].operation] = 0]
    /\ UNCHANGED <<now, error_records, cache_store>>

\* await operation() raises: lines 287-302, then 304-318 when the loop ends
OpRaises(c, errors) ==
    /\ frame[c].pc = "await_op"
    /\ \E error \in errors :
          LET f == [frame[c] EXCEPT
                       !.last_error = error,
                       !.errors_seen = @ \cup {categorize_error(error)}]
          IN  /\ error_records' = record_error(error_records, error)
              /\ IF f.attempt_number < f.max_attempts /\ should_retry(error)
                   THEN /\ frame' = [frame EXCEPT ![c] =
                               IF retry_delay_raises(f.attempt_number)
                                 THEN \* the OverflowError leaves the call
                                      [f EXCEPT !.pc = "done",
                                                !.outcome = Raises("OverflowError")]
                                 ELSE [f EXCEPT !.pc = "sleep",
                                                !.wake_at = now + calculate_retry_delay(
                                                                      f.attempt_number)]]
                        /\ circuit_breakers' = circuit_breakers
                        /\ consecutive_failures' = consecutive_failures
                   ELSE /\ circuit_breakers' =
                               update_circuit_breaker(circuit_breakers, f.operation, now)
                        /\ frame' = [frame EXCEPT ![c] = EndWithFallback(f)]
                        /\ consecutive_failures' =
                               [consecutive_failures EXCEPT ![f.operation] = @ + 1]
    /\ UNCHANGED <<now, cache_store>>

\* await asyncio.sleep(delay) returns, no earlier than wake_at: the next
\* iteration of the loop
SleepReturns(c) ==
    /\ frame[c].pc = "sleep"
    /\ now >= frame[c].wake_at
    /\ LoopTop(c, [frame[c] EXCEPT !.attempt_number = @ + 1], now)
    /\ UNCHANGED <<now, error_records, cache_store, consecutive_failures>>

\* time passes
TickStep == 31

Tick ==
    /\ now + TickStep <= MaxClock
    /\ now' = now + TickStep
    /\ UNCHANGED <<circuit_breakers, error_records, cache_store, frame,
                   consecutive_failures>>

FTInit ==
    /\ now = 0
    /\ circuit_breakers = [op \in OpNames |-> NoCircuit]
    /\ error_records = [cat \in ErrorCategory |-> 0]
    /\ cache_store = {}
    /\ frame = [c \in Callers |-> IdleFrame]
    /\ consecutive_failures = [op \in OpNames |-> 0]

\* the state of the workflow registry after import: no job
JobIds == {"w1", "w2"}

NoJob ==
    [exists |-> FALSE, status |-> "", phase |-> "", results |-> "none",
     error |-> "none", updated_at |-> 0]

NoTask == [pc |-> "none", auto_update |-> FALSE, batch_size |-> 0, raised |-> "none"]

NoResponse == [handler |-> "none", job |-> "", code |-> 0, body |-> ""]

WFInit ==
    /\ workflow_jobs = [j \in JobIds |-> NoJob]
    /\ wf_task = [j \in JobIds |-> NoTask]
    /\ wf_response = NoResponse

\* analyze_tables_batch not called
BAInit ==
    /\ tables = <<>>
    /\ batch_size = 0
    /\ max_concurrent = 0
    /\ batch_pc = "idle"
    /\ batch_i = 0
    /\ task = <<>>
    /\ semaphore = 0
    /\ results = {}
    /\ failed_tables = <<>>

\* TableAnalysisService.__init__, no analysis running
RLInit ==
    /\ rl_now = 0
    /\ last_request_time = 0
    /\ worker = <<>>
    /\ request_log = <<>>

\* no function called yet
NoCall == [fn |-> "none"]

PFInit ==
    /\ pf_last = NoCall
    /\ pf_prev = NoCall

\* validate_batch_results lines 100-113: the summary before the loop
NoSummary ==
    [statistics |-> [total_analyses |-> 0, valid_analyses |-> 0,
                     warning_analyses |-> 0, invalid_analyses |-> 0],
     quality_issues |-> <<>>,
     filtered_results |-> <<>>]

QAInit ==
    /\ qa_pc = "idle"
    /\ qa_input = <<>>
    /\ validation_summary = NoSummary

\* the state of the batch job registry after import: no job
BatchJobIds == {"b1"}

NoBatchJob == [exists |-> FALSE, status |-> "", results |-> "none", error |-> "none"]

AJInit ==
    /\ analysis_jobs = [j \in BatchJobIds |-> NoBatchJob]
    /\ aj_task = [j \in BatchJobIds |-> "none"]

otherThanFT == <<clVars, wfVars, baVars, rlVars, pfVars, qaVars, ajVars>>
otherThanCL == <<ftVars, wfVars, baVars, rlVars, pfVars, qaVars, ajVars>>
otherThanWF == <<ftVars, clVars, baVars, rlVars, pfVars, qaVars, ajVars>>
otherThanBA == <<ftVars, clVars, wfVars, rlVars, pfVars, qaVars, ajVars>>
otherThanRL == <<ftVars, clVars, wfVars, baVars, pfVars, qaVars, ajVars>>
otherThanPF == <<ftVars, clVars, wfVars, baVars, rlVars, qaVars, ajVars>>
otherThanQA == <<ftVars, clVars, wfVars, baVars, rlVars, pfVars, ajVars>>
otherThanAJ == <<ftVars, clVars, wfVars, baVars, rlVars, pfVars, qaVars>>
otherThanWF_AJ == <<ftVars, clVars, baVars, rlVars, pfVars, qaVars>>

CLInit ==
    /\ cl_error = NoError
    /\ cl_category = "none"
    /\ cl_retry = FALSE

Init == FTInit /\ CLInit /\ WFInit /\ BAInit /\ RLInit /\ PFInit /\ QAInit /\ AJInit

Next ==
    \/ \E c \in SeqCallers : StartCall(c, OpNames, StrategyInputs) /\ UNCHANGED otherThanFT
    \/ \E c \in SeqCallers : OpReturns(c) /\ UNCHANGED otherThanFT
    \/ \E c \in SeqCallers : OpRaises(c, OpErrors) /\ UNCHANGED otherThanFT
    \/ \E c \in SeqCallers : SleepReturns(c) /\ UNCHANGED otherThanFT
    \/ Tick /\ UNCHANGED otherThanFT

Spec == Init /\ [][Next]_vars

(***************************************************************************)
(* Claims about execute_with_fallback (Spec).                              *)
(***************************************************************************)
\* the calls that have returned or raised
Finished(c) == frame[c].pc = "done"

\* C1: a call to execute_with_fallback that starts while the circuit of its
\* operation name is open and the timeout has not elapsed invokes the
\* wrapped operation zero times and ends with what the fallback strategy
\* gives for last_error = None.
C1_OpenCircuitSkipsOperation ==
    \A c \in Callers :
        frame[c].started_open =>
            /\ Finished(c)
            /\ frame[c].invocations = 0
            /\ frame[c].outcome =
                   use_fallback(frame[c].fallback_strategy, ContextOf(frame[c]),
                                NoError, cache_store)

\* a call was short-circuited while the circuit of its name was open, and
\* the circuit of the other name was not
C1_Witness ==
    \E c \in Callers :
        /\ Finished(c) /\ frame[c].started_open /\ frame[c].broke_open
        /\ frame[c].max_attempts >= 1
        /\ \E other \in OpNames \ {frame[c].operation} :
              ~circuit_breakers[other].is_open

\* C2: with an operation that fails on every attempt, max_attempts >= 1 and
\* fallback_strategy = "simplified", execute_with_fallback does not raise:
\* it returns fallback_used = true, fallback_type = "simplified_analysis"
\* and an analysis_results payload.
C2_SimplifiedNeverRaises ==
    \A c \in Callers :
        (/\ Finished(c)
         /\ frame[c].fallback_strategy = "simplified"
         /\ frame[c].max_attempts >= 1
         /\ frame[c].invocations >= 1
         /\ frame[c].outcome.kind # "op_result")
        => /\ frame[c].outcome.kind = "fallback"
           /\ frame[c].outcome.fallback_used
           /\ frame[c].outcome.fallback_type = "simplified_analysis"
           /\ frame[c].outcome.analysis_results

\* C8: after exactly circuit_threshold consecutive failures on one operation
\* name the circuit is open (and stays so until its timeout has elapsed and
\* a call has looked at it), and it is not open after fewer.
C8_OpensAtThreshold ==
    \A op \in OpNames :
        LET circuit == circuit_breakers[op]
        IN  /\ consecutive_failures[op] < circuit_threshold => ~circuit.is_open
            /\ consecutive_failures[op] = circuit_threshold =>
                  /\ circuit.exists
                  /\ \/ circuit.is_open
                     \/ circuit.half_open /\ now - circuit.opened_at > circuit_timeout

C8_Witness ==
    \E op \in OpNames :
        /\ consecutive_failures[op] = circuit_threshold
        /\ circuit_breakers[op].is_open
        /\ circuit_breakers[op].failure_count = circuit_threshold

(***************************************************************************)
(* SpecClassify: _categorize_error and _should_retry applied to one        *)
(* exception, drawn from messages of up to MaxWords words and a few        *)
(* exception types.                                                        *)
(***************************************************************************)
Words ==
    {"Connection", "timeout", "Rate limit", "unauthorized", "quota",
     "forbidden", "JSON", "memory", "failed", "Authentication"}

ErrorTypes == {"Exception", "TimeoutError", "HTTPError"}

RECURSIVE Join(_)
Join(ws) ==
    IF Len(ws) = 0 THEN ""
    ELSE IF Len(ws) = 1 THEN ws[1]
    ELSE ws[1] \o " " \o Join(Tail(ws))

WordSeqs == UNION {[1..n -> Words] : n \in 0..MaxWords}

ClassifyInit ==
    /\ cl_error \in {Err(t, Join(ws)) : t \in ErrorTypes, ws \in WordSeqs}
    /\ cl_category = "none"
    /\ cl_retry = FALSE

Classify ==
    /\ cl_category = "none"
    /\ cl_category' = categorize_error(cl_error)
    /\ cl_retry' = should_retry(cl_error)
    /\ UNCHANGED cl_error

InitClassify == FTInit /\ ClassifyInit /\ WFInit /\ BAInit /\ RLInit /\ PFInit /\ QAInit /\ AJInit

NextClassify == Classify /\ UNCHANGED otherThanCL

SpecClassify == InitClassify /\ [][NextClassify]_vars

Classified == cl_category # "none"

\* C10 as stated: whatever other keywords the message holds, "timeout"
\* gives TIMEOUT, "rate limit" gives API_LIMIT and "unauthorized" gives
\* AUTHENTICATION, which is not retried.
C10_EveryCombination ==
    Classified =>
        LET error_str == Lower(cl_error.msg)
        IN  /\ In("timeout", error_str) => cl_category = "TIMEOUT"
            /\ In("rate limit", error_str) => cl_category = "API_LIMIT"
            /\ In("unauthorized", error_str) =>
                  cl_category = "AUTHENTICATION" /\ ~cl_retry

\* C10 amended: "timeout" in the message gives TIMEOUT; "rate limit" gives
\* API_LIMIT unless the message or the exception's type name holds
\* "timeout"; "unauthorized" gives AUTHENTICATION, not retried, unless the
\* message or type name holds "timeout" or the message holds "rate",
\* "quota" or "limit".
C10_FirstMatchWins ==
    Classified =>
        LET error_str == Lower(cl_error.msg)
            has_timeout == In("timeout", error_str) \/ In("timeout", Lower(cl_error.type))
            has_limit == In("rate", error_str) \/ In("quota", error_str)
                            \/ In("limit", error_str)
        IN  /\ In("timeout", error_str) => cl_category = "TIMEOUT"
            /\ In("rate limit", error_str) /\ ~has_timeout => cl_category = "API_LIMIT"
            /\ In("unauthorized", error_str) /\ ~has_timeout /\ ~has_limit =>
                  cl_category = "AUTHENTICATION" /\ ~cl_retry

\* a message with "timeout" and "rate limit" has been classified TIMEOUT
C10_Witness ==
    /\ Classified
    /\ In("timeout", Lower(cl_error.msg))
    /\ In("rate limit", Lower(cl_error.msg))
    /\ cl_category = "TIMEOUT"

(***************************************************************************)
(* SpecWorkflow: the workflow endpoints and the background task            *)
(* _run_complete_workflow.  The task yields at the awaits of the           *)
(* orchestrator's HTTP calls and of the batch analysis; the handlers run   *)
(* between two yields.                                                     *)
(***************************************************************************)
\* the names bound at module level in routes/workflow.py (its imports and
\* definitions); `datetime` is imported inside two functions only
workflow_module_names ==
    {"asyncio", "os", "Dict", "List", "Any", "Optional", "APIRouter",
     "HTTPException", "BackgroundTasks", "Depends", "BaseModel", "Field",
     "logging", "WorkflowOrchestrator", "WorkflowConfig", "AnalysisCategory",
     "get_settings", "logger", "router", "workflow_jobs"}

Response(h, j, code, body) == [handler |-> h, job |-> j, code |-> code, body |-> body]

\* request.batch_size has no validation: 0 is accepted, 5 is the default
BatchSizes == {0, 5}

\* POST /start-complete-analysis
start_complete_workflow(j) ==
    /\ ~workflow_jobs[j].exists
    /\ workflow_jobs' = [workflow_jobs EXCEPT ![j] =
            [exists |-> TRUE, status |-> "pending", phase |-> "initializing",
             results |-> "none", error |-> "none", updated_at |-> 1]]
    /\ \E au \in BOOLEAN, bs \in BatchSizes :
          wf_task' = [wf_task EXCEPT ![j] =
              [pc |-> "scheduled", auto_update |-> au, batch_size |-> bs,
               raised |-> "none"]]
    /\ wf_response' = Response("start", j, 200, "started")

\* GET /status/{workflow_id}
get_workflow_status(j) ==
    /\ wf_response' =
          IF ~workflow_jobs[j].exists THEN Response("status", j, 404, "Workflow not found")
          ELSE Response("status", j, 200, workflow_jobs[j].status)
    /\ UNCHANGED <<workflow_jobs, wf_task>>

\* GET /results/{workflow_id}
get_workflow_results(j) ==
    /\ wf_response' =
          IF ~workflow_jobs[j].exists THEN Response("results", j, 404, "Workflow not found")
          ELSE IF workflow_jobs[j].status # "completed"
            THEN Response("results", j, 400, "Workflow not completed")
          ELSE Response("results", j, 200, workflow_jobs[j].results)
    /\ UNCHANGED <<workflow_jobs, wf_task>>

\* a cancellation that takes a job of any status
cancel_workflow_any_status(j) ==
    /\ IF ~workflow_jobs[j].exists
         THEN /\ wf_response' = Response("cancel", j, 404, "Workflow not found")
              /\ UNCHANGED workflow_jobs
         ELSE /\ workflow_jobs' = [workflow_jobs EXCEPT ![j].status = "cancelled"]
              /\ wf_response' = Response("cancel", j, 500, "NameError")
    /\ UNCHANGED wf_task

\* DELETE /workflow/{workflow_id}
cancel_workflow(j) ==
    /\ IF ~workflow_jobs[j].exists
         THEN /\ wf_response' = Response("cancel", j, 404, "Workflow not found")
              /\ UNCHANGED workflow_jobs
         ELSE IF workflow_jobs[j].status \in {"pending", "running"}
           THEN IF "datetime" \in workflow_module_names
                  THEN /\ workflow_jobs' = [workflow_jobs EXCEPT
                              ![j].status = "cancelled", ![j].updated_at = @ + 1]
                       /\ wf_response' =
                              Response("cancel", j, 200, "Workflow cancellation requested")
                  ELSE \* job["status"] is assigned, then datetime.utcnow()
                       \* raises NameError
                       /\ workflow_jobs' = [workflow_jobs EXCEPT ![j].status = "cancelled"]
                       /\ wf_response' = Response("cancel", j, 500, "NameError")
           ELSE /\ wf_response' = Response("cancel", j, 200,
                        "Workflow is " \o workflow_jobs[j].status \o " and cannot be cancelled")
                /\ UNCHANGED workflow_jobs
    /\ UNCHANGED wf_task

\* _run_complete_workflow, lines 311-319: the run returned `results`
\* (the summary, or the dict run_complete_workflow builds in its own
\* except branch).  The task then leaves the `async with` block, which
\* awaits http_client.aclose() inside the same try.
TaskCompletes(j, run_results, raised) ==
    /\ workflow_jobs' = [workflow_jobs EXCEPT
            ![j].status = "completed", ![j].results = run_results,
            ![j].phase = "completed", ![j].updated_at = @ + 1]
    /\ wf_task' = [wf_task EXCEPT ![j].pc = "closing", ![j].raised = raised]

\* _run_complete_workflow, lines 323-327: the except branch, entered with
\* the job as the try block left it
TaskFails(j, job, raised) ==
    /\ workflow_jobs' = [workflow_jobs EXCEPT ![j] =
            [job EXCEPT !.status = "failed", !.error = "text",
                        !.updated_at = @ + 1]]
    /\ wf_task' = [wf_task EXCEPT ![j].pc = "finished", ![j].raised = raised]

\* the background task starts: lines 276-309 up to the first await.
\* Lines 278-280 write status, phase and updated_at; then
\* WorkflowOrchestrator(config) may raise (get_settings, GeminiService),
\* inside the try.
TaskStarts(j) ==
    /\ wf_task[j].pc = "scheduled"
    /\ LET started == [workflow_jobs[j] EXCEPT
                          !.status = "running", !.phase = "starting",
                          !.updated_at = @ + 1]
       IN  \/ /\ workflow_jobs' = [workflow_jobs EXCEPT ![j] = started]
              /\ wf_task' = [wf_task EXCEPT ![j].pc = "discover"]
           \/ TaskFails(j, started, "construct")
    /\ UNCHANGED wf_response

\* WorkflowOrchestrator.__aexit__: http_client.aclose() returns, and the
\* task ends at line 321, or raises into the except branch of line 323
CloseReturns(j) ==
    /\ wf_task[j].pc = "closing"
    /\ \/ /\ wf_task' = [wf_task EXCEPT ![j].pc = "finished"]
          /\ UNCHANGED workflow_jobs
       \/ TaskFails(j, workflow_jobs[j],
                    IF wf_task[j].raised = "none" THEN "close" ELSE wf_task[j].raised)
    /\ UNCHANGED wf_response

\* run_complete_workflow from the end of discovery to the next await
DiscoverReturns(j) ==
    /\ wf_task[j].pc = "discover"
    /\ \E found \in {"raises", "no_tables", "tables"} :
          IF found = "raises"
            THEN \* caught at line 104: the run returns status "failed"
                 TaskCompletes(j, "failed_summary", "discover")
          ELSE IF wf_task[j].batch_size < 1
            THEN \* range(0, len(tables), 0) raises ValueError
                 TaskCompletes(j, "failed_summary", "analyze")
          ELSE IF found = "no_tables"
            THEN \* nothing to await in analysis, processing or update
                 TaskCompletes(j, "summary", "none")
          ELSE /\ wf_task' = [wf_task EXCEPT ![j].pc = "analyze"]
               /\ UNCHANGED workflow_jobs
    /\ UNCHANGED wf_response

\* the batch analysis returns; _process_results runs; the update step
\* awaits its first metadata lookup when enabled
AnalyzeReturns(j) ==
    /\ wf_task[j].pc = "analyze"
    /\ IF wf_task[j].auto_update
         THEN /\ wf_task' = [wf_task EXCEPT ![j].pc = "update"]
              /\ UNCHANGED workflow_jobs
         ELSE TaskCompletes(j, "summary", "none")
    /\ UNCHANGED wf_response

\* _update_airtable_metadata returns (it catches every exception)
UpdateReturns(j) ==
    /\ wf_task[j].pc = "update"
    /\ TaskCompletes(j, "summary", "none")
    /\ UNCHANGED wf_response

InitWorkflow == FTInit /\ CLInit /\ WFInit /\ BAInit /\ RLInit /\ PFInit /\ QAInit /\ AJInit

NextWorkflow ==
    \/ \E j \in JobIds : start_complete_workflow(j) /\ UNCHANGED otherThanWF
    \/ \E j \in JobIds : get_workflow_status(j) /\ UNCHANGED otherThanWF
    \/ \E j \in JobIds : get_workflow_results(j) /\ UNCHANGED otherThanWF
    \/ \E j \in JobIds : cancel_workflow(j) /\ UNCHANGED otherThanWF
    \/ \E j \in JobIds : TaskStarts(j) /\ UNCHANGED otherThanWF
    \/ \E j \in JobIds : DiscoverReturns(j) /\ UNCHANGED otherThanWF
    \/ \E j \in JobIds : AnalyzeReturns(j) /\ UNCHANGED otherThanWF
    \/ \E j \in JobIds : UpdateReturns(j) /\ UNCHANGED otherThanWF
    \/ \E j \in JobIds : CloseReturns(j) /\ UNCHANGED otherThanWF

SpecWorkflow == InitWorkflow /\ [][NextWorkflow]_vars

TerminalStatus == {"completed", "failed", "cancelled"}

\* C3: once a job's status is completed, failed or cancelled, no step of
\* the background task, of a status query or of a cancellation request
\* changes that status.
C3_TerminalStatusIsFinal ==
    [][\A j \in JobIds :
          workflow_jobs[j].status \in TerminalStatus =>
              workflow_jobs'[j].status = workflow_jobs[j].status]_vars

\* C4: when the discover or analyze step of a run raised, the job ends with
\* status failed and the error text in its error field.
C4_StepFailureFailsJob ==
    \A j \in JobIds :
        (wf_task[j].pc = "finished" /\ wf_task[j].raised \in {"discover", "analyze"})
        => /\ workflow_jobs[j].status = "failed"
           /\ workflow_jobs[j].error # "none"

(***************************************************************************)
(* SpecBatch: TableAnalysisService.analyze_tables_batch called by          *)
(* WorkflowOrchestrator._run_batch_analysis.  Each analyze_single_table    *)
(* task of a batch waits for the semaphore, holds it while                 *)
(* analyze_table_comprehensive runs, and returns or raises.                *)
(***************************************************************************)
MaxTables == 4
MaxBatchSize == 3
MaxConcurrent == 2

TableIds == 1..Len(tables)

\* tables[i:i + batch_size], as 1-based positions
BatchAt(i) == {k \in TableIds : i < k /\ k <= i + batch_size}

BatchInit ==
    /\ \E n \in 0..MaxTables : tables = [k \in 1..n |-> k]
    /\ batch_size \in 0..MaxBatchSize
    /\ max_concurrent \in 0..MaxConcurrent
    /\ batch_pc = "idle"
    /\ batch_i = 0
    /\ task = [k \in TableIds |-> "not_started"]
    /\ semaphore = 0
    /\ results = {}
    /\ failed_tables = <<>>

\* lines 426-430: the next batch's tasks are created and gathered, or the
\* loop is over and line 442 returns
NextBatch(i) ==
    IF i < Len(tables)
      THEN /\ batch_pc' = "gather"
           /\ batch_i' = i
           /\ task' = [k \in TableIds |->
                          IF k \in BatchAt(i) THEN "waiting" ELSE task[k]]
      ELSE /\ batch_pc' = "returned"
           /\ batch_i' = i
           /\ task' = task

\* _run_batch_analysis calls analyze_tables_batch: lines 417-430
CallBatch ==
    /\ batch_pc = "idle"
    /\ semaphore' = max_concurrent
    /\ IF batch_size = 0
         THEN \* range(0, len(tables), 0): ValueError, re-raised by the caller
              /\ batch_pc' = "raised"
              /\ UNCHANGED <<batch_i, task>>
         ELSE NextBatch(0)
    /\ UNCHANGED <<tables, batch_size, max_concurrent, results, failed_tables>>

\* a semaphore that admits everyone
may_acquire_always(value) == TRUE

\* asyncio.Semaphore.acquire: proceeds while the value is positive
may_acquire(value) == value > 0

\* async with semaphore: a waiting task acquires and starts
\* analyze_table_comprehensive
Acquire(k) ==
    /\ batch_pc = "gather"
    /\ task[k] = "waiting"
    /\ may_acquire(semaphore)
    /\ semaphore' = semaphore - 1
    /\ task' = [task EXCEPT ![k] = "running"]
    /\ UNCHANGED <<tables, batch_size, max_concurrent, batch_pc, batch_i,
                   results, failed_tables>>

\* analyze_table_comprehensive returns or raises; the semaphore is released
TaskEnds(k) ==
    /\ task[k] = "running"
    /\ \E how \in {"returned", "raised"} : task' = [task EXCEPT ![k] = how]
    /\ semaphore' = semaphore + 1
    /\ UNCHANGED <<tables, batch_size, max_concurrent, batch_pc, batch_i,
                   results, failed_tables>>

\* a join that keeps every task's table, raised or not
collect_every(res, batch) == res \cup batch

\* lines 432-437: the results that are not exceptions enter the map
collect(res, batch) == res \cup {k \in batch : task[k] = "returned"}

\* a join that waits for no task
JoinBatchEarly ==
    /\ batch_pc = "gather"
    /\ results' = collect(results, BatchAt(batch_i))
    /\ NextBatch(batch_i + batch_size)
    /\ UNCHANGED <<tables, batch_size, max_concurrent, semaphore, failed_tables>>

\* asyncio.gather(..., return_exceptions=True) returns once every task of
\* the batch has ended; lines 432-440, then the next batch
JoinBatch ==
    /\ batch_pc = "gather"
    /\ \A k \in BatchAt(batch_i) : task[k] \in {"returned", "raised"}
    /\ results' = collect(results, BatchAt(batch_i))
    /\ NextBatch(batch_i + batch_size)
    /\ UNCHANGED <<tables, batch_size, max_concurrent, semaphore, failed_tables>>

RECURSIVE missing_from(_, _)
\* _run_batch_analysis lines 178-184: the tables not in the result map
missing_from(ts, res) ==
    IF ts = <<>> THEN <<>>
    ELSE IF Head(ts) \notin res THEN <<Head(ts)>> \o missing_from(Tail(ts), res)
    ELSE missing_from(Tail(ts), res)

\* analyze_tables_batch has returned: _run_batch_analysis lines 177-186
TrackFailed ==
    /\ batch_pc = "returned"
    /\ failed_tables' = failed_tables \o missing_from(tables, results)
    /\ batch_pc' = "done"
    /\ UNCHANGED <<tables, batch_size, max_concurrent, batch_i, task, semaphore,
                   results>>

InitBatch == FTInit /\ CLInit /\ WFInit /\ BatchInit /\ RLInit /\ PFInit /\ QAInit /\ AJInit

NextBatchSpec ==
    \/ CallBatch /\ UNCHANGED otherThanBA
    \/ \E k \in TableIds : Acquire(k) /\ UNCHANGED otherThanBA
    \/ \E k \in TableIds : TaskEnds(k) /\ UNCHANGED otherThanBA
    \/ JoinBatch /\ UNCHANGED otherThanBA
    \/ TrackFailed /\ UNCHANGED otherThanBA

SpecBatch == InitBatch /\ [][NextBatchSpec]_vars

\* C5: with distinct table ids, batch_size >= 1 and max_concurrent >= 1,
\* when _run_batch_analysis is done the result map holds exactly the tables
\* whose analysis did not raise, every table has been analysed to its end,
\* and failed_tables holds each table missing from the map exactly once.
C5_FailuresAreIsolated ==
    (batch_pc = "done" /\ batch_size >= 1 /\ max_concurrent >= 1) =>
        /\ \A k \in TableIds : task[k] \in {"returned", "raised"}
        /\ results = {k \in TableIds : task[k] = "returned"}
        /\ Len(failed_tables) = Cardinality(TableIds \ results)
        /\ \A k \in TableIds \ results :
              \E n \in 1..Len(failed_tables) : failed_tables[n] = k

\* a run over several batches where a table of the first batch raised and
\* tables of the same and of a later batch returned
C5_Witness ==
    /\ batch_pc = "done" /\ batch_size >= 2 /\ Len(tables) > batch_size
    /\ task[1] = "raised"
    /\ 2 \in results
    /\ Len(tables) \in results
    /\ failed_tables = <<1>>

\* C6: the number of per-table analyses holding the semaphore is at most
\* max_concurrent.
InFlight == {k \in TableIds : task[k] = "running"}

C6_ConcurrencyBounded == Cardinality(InFlight) <= max_concurrent

\* the bound binds: max_concurrent analyses in flight and another waiting
C6_Witness ==
    /\ max_concurrent >= 1
    /\ Cardinality(InFlight) = max_concurrent
    /\ \E k \in TableIds : task[k] = "waiting"


(***************************************************************************)
(* SpecRate: TableAnalysisService._rate_limit as analyze_table_comprehensive *)
(* calls it before each category's provider request, for the table         *)
(* analyses that hold the semaphore together.  One coroutine runs at a     *)
(* time; it gives up the event loop only at asyncio.sleep (line 564) and   *)
(* when it ends.  GeminiService.complete has no await that suspends: the   *)
(* request blocks the loop for its duration.                               *)
(***************************************************************************)
TimeScale == 2            \* clock ticks per second
MaxTime == 8              \* last tick of the clock
CategoriesPerTable == 2   \* categories each analysis runs
MaxDuration == 2          \* longest provider request, in ticks

\* self.min_request_interval, in seconds
min_request_interval == 1

Workers == {"t1", "t2"}

interval_ticks == min_request_interval * TimeScale

RateInit ==
    /\ rl_now = interval_ticks
    /\ last_request_time = 0
    /\ worker = [w \in Workers |->
                   [pc |-> "created", wake_at |-> 0, remaining |-> CategoriesPerTable]]
    /\ request_log = <<>>

\* no coroutine is between two suspension points
LoopIdle == \A w \in Workers : worker[w].pc \notin {"check", "stamp"}

\* _rate_limit lines 560-564: read the clock, sleep for the remainder
RateLimitCheck(w) ==
    /\ \/ worker[w].pc = "created" /\ LoopIdle
       \/ worker[w].pc = "check"
    /\ LET current_time == rl_now
           time_since_last == current_time - last_request_time
       IN  IF time_since_last < interval_ticks
             THEN worker' = [worker EXCEPT ![w].pc = "sleeping",
                     ![w].wake_at = current_time + (interval_ticks - time_since_last)]
             ELSE worker' = [worker EXCEPT ![w].pc = "stamp"]
    /\ UNCHANGED <<rl_now, last_request_time, request_log>>

\* _rate_limit line 566, then _analyze_category: the provider request
\* begins now and blocks for d ticks; the next category follows
Request(w, d) ==
    /\ \/ worker[w].pc = "sleeping" /\ rl_now >= worker[w].wake_at /\ LoopIdle
       \/ worker[w].pc = "stamp"
    /\ rl_now + d <= MaxTime
    /\ last_request_time' = rl_now
    /\ request_log' = Append(request_log, rl_now)
    /\ rl_now' = rl_now + d
    /\ worker' = [worker EXCEPT
            ![w].remaining = @ - 1,
            ![w].pc = IF worker[w].remaining = 1 THEN "done" ELSE "check"]

\* time passes while every coroutine is suspended
RateTick ==
    /\ LoopIdle
    /\ rl_now < MaxTime
    /\ rl_now' = rl_now + 1
    /\ UNCHANGED <<last_request_time, worker, request_log>>

InitRate == FTInit /\ CLInit /\ WFInit /\ BAInit /\ RateInit /\ PFInit /\ QAInit /\ AJInit

NextRate ==
    \/ \E w \in Workers : RateLimitCheck(w) /\ UNCHANGED otherThanRL
    \/ \E w \in Workers, d \in 0..MaxDuration : Request(w, d) /\ UNCHANGED otherThanRL
    \/ RateTick /\ UNCHANGED otherThanRL

SpecRate == InitRate /\ [][NextRate]_vars

\* C7: any two provider requests, also of table analyses that run
\* concurrently in one batch, begin at least min_request_interval apart.
C7_RequestsSpaced ==
    \A i, j \in 1..Len(request_log) :
        i < j => request_log[j] - request_log[i] >= interval_ticks

\* the requests of one table analysis are spaced: what the sequential test sees
SequentialRequestsSpaced ==
    (worker["t2"].pc = "created") => C7_RequestsSpaced


(***************************************************************************)
(* SpecDelay: ErrorHandlingService._calculate_retry_delay called for       *)
(* attempt numbers 1..MaxAttemptNumber, the last two calls kept.           *)
(***************************************************************************)
MaxAttemptNumber == 10

\* the attempt numbers of the calls: the first ones, and those around the
\* largest finite power
AttemptNumbers ==
    (1..MaxAttemptNumber) \cup ((DBL_MAX_EXP - 1)..(DBL_MAX_EXP + 2))

DelayCall(attempt) ==
    IF retry_delay_raises(attempt)
      THEN [fn |-> "_calculate_retry_delay", attempt |-> attempt,
            raised |-> "OverflowError"]
      ELSE [fn |-> "_calculate_retry_delay", attempt |-> attempt,
            raised |-> "none", delay |-> calculate_retry_delay(attempt)]

CalcDelay(attempt) ==
    /\ pf_prev' = pf_last
    /\ pf_last' = DelayCall(attempt)

NextDelay == \E attempt \in AttemptNumbers : CalcDelay(attempt) /\ UNCHANGED otherThanPF

SpecDelay == Init /\ [][NextDelay]_vars

\* two calls were made, the earlier one for the smaller attempt number
TwoDelays ==
    /\ pf_prev.fn = "_calculate_retry_delay"
    /\ pf_last.fn = "_calculate_retry_delay"
    /\ pf_prev.attempt < pf_last.attempt

\* C11 as stated: the delay is strictly increasing in the attempt number
\* and never exceeds max_delay, for every attempt number >= 1.
C11_StrictlyIncreasing ==
    TwoDelays => /\ pf_prev.raised = "none"
                 /\ pf_last.raised = "none"
                 /\ pf_prev.delay < pf_last.delay
                 /\ pf_last.delay <= max_delay

\* C11: a call for an attempt number of 1..1024 returns a delay and a call
\* for a larger one raises OverflowError.  The delays returned never exceed
\* max_delay and never decrease as the attempt number grows; they strictly
\* increase as long as the smaller attempt's delay is still below max_delay,
\* and stay at max_delay afterwards.
C11_IncreasingUntilCapped ==
    TwoDelays =>
        /\ (pf_prev.raised = "none") <=> (pf_prev.attempt <= 1024)
        /\ (pf_last.raised = "none") <=> (pf_last.attempt <= 1024)
        /\ pf_prev.raised # "none" => pf_prev.raised = "OverflowError"
        /\ pf_last.raised # "none" => pf_last.raised = "OverflowError"
        /\ (pf_prev.raised = "none" /\ pf_last.raised = "none") =>
              /\ pf_prev.delay <= max_delay
              /\ pf_last.delay <= max_delay
              /\ pf_prev.delay <= pf_last.delay
              /\ pf_prev.delay < max_delay => pf_prev.delay < pf_last.delay
              /\ pf_prev.delay = max_delay => pf_last.delay = max_delay

\* the cap acts for attempt 1024, the last one with a finite power, and the
\* call for attempt 1025 raises
C11_Witness ==
    /\ TwoDelays
    /\ pf_prev.attempt = 1024
    /\ pf_prev.raised = "none"
    /\ pf_prev.delay = max_delay
    /\ pf_last.attempt = 1025
    /\ pf_last.raised = "OverflowError"

\* the cap acts below the overflow: attempts 6 and 7 both give max_delay
CapActs ==
    /\ TwoDelays
    /\ pf_prev.attempt = 6 /\ pf_prev.raised = "none" /\ pf_prev.delay = max_delay
    /\ pf_last.attempt = 7 /\ pf_last.raised = "none" /\ pf_last.delay = max_delay


(***************************************************************************)
(* Quality assurance (quality_assurance.py).  A finding is an              *)
(* AnalysisResult; its texts are real strings and the checks search them   *)
(* as the code does.  A score is a Python float, written here as the       *)
(* integer  hundredths * 1000 + t  where t is what the double's shortest   *)
(* decimal has beyond the hundredths, in units of 1e-17: 1.0 is 100000,    *)
(* 0.7000000000000001 is 70010 and 0.49999999999999994 is 49994.           *)
(***************************************************************************)
\* the rounding of the double subtraction a - d/100, in units of 1e-17
float_sub_rounding(a, d) ==
    CASE a = 9998  /\ d = 10 -> -1
      [] a = 19996 /\ d = 10 -> -1
      [] a = 29993 /\ d = 20 -> -1
      [] a = 30000 /\ d = 10 -> -2
      [] a = 30000 /\ d = 20 -> -2
      [] a = 39997 /\ d = 10 -> -4
      [] a = 39997 /\ d = 20 -> -1
      [] a = 40010 /\ d = 30 -> -1
      [] a = 49994 /\ d = 10 -> -4
      [] a = 49994 /\ d = 20 -> -1
      [] a = 60000 /\ d = 20 -> -3
      [] a = 70000 /\ d = 20 -> -6
      [] a = 70000 /\ d = 30 -> -3
      [] a = 80000 /\ d = 10 -> 10
      [] a = 80000 /\ d = 20 -> 10
      [] OTHER -> 0

\* score -= d/100 on doubles
float_sub(a, d) == a - 1000 * d + float_sub_rounding(a, d)

\* the hundredths nearest to a score
Hundredths(score) == (score + 500) \div 1000

Digits == {"0", "1", "2", "3", "4", "5", "6", "7", "8", "9"}

CharAt(s, i) == SubSeq(s, i, i)

\* re.search(r'\d+' + c, s): a digit directly before c
DigitsThen(c, s) ==
    \E i \in 1..(Len(s) - Len(c)) :
        CharAt(s, i) \in Digits /\ SubSeq(s, i + 1, i + Len(c)) = c

\* re.search(k + r'\d+', s): a digit directly after k
ThenDigits(k, s) ==
    \E i \in 1..(Len(s) - Len(k)) :
        SubSeq(s, i, i + Len(k) - 1) = k /\ CharAt(s, i + Len(k)) \in Digits

\* re.search(k + r'.*\d+', s): a digit anywhere after k (one line of text)
ThenLaterDigits(k, s) ==
    \E i \in 1..(Len(s) - Len(k)) :
        /\ SubSeq(s, i, i + Len(k) - 1) = k
        /\ \E j \in (i + Len(k))..Len(s) : CharAt(s, j) \in Digits

RECURSIVE LStrip(_)
LStrip(s) == IF s # "" /\ CharAt(s, 1) = " " THEN LStrip(SubSeq(s, 2, Len(s))) ELSE s

RECURSIVE RStrip(_)
RStrip(s) ==
    IF s # "" /\ CharAt(s, Len(s)) = " " THEN RStrip(SubSeq(s, 1, Len(s) - 1)) ELSE s

\* str.strip()
Strip(s) == RStrip(LStrip(s))

\* any(k in s for k in keys)
AnyIn(keys, s) == \E k \in keys : In(k, s)

\* sum(1 for k in keys if k in s)
CountIn(keys, s) == Cardinality({k \in keys : In(k, s)})

\* QualityAssuranceService.__init__
min_confidence_threshold == 50
min_description_length == 20
min_recommendation_length == 30
required_implementation_steps == 1
effort_patterns == {"low", "medium", "high"}

\* weights without the default: a check name without a weight gets 0
quality_weights_no_default(check_name) ==
    CASE check_name = "confidence_score" -> 6
      [] check_name = "content_quality" -> 5
      [] check_name = "actionability" -> 4
      [] check_name = "specificity" -> 3
      [] check_name = "consistency" -> 2
      [] OTHER -> 0

\* quality_weights, in twentieths; a check name without a weight gets 0.1
quality_weights(check_name) ==
    CASE check_name = "confidence_score" -> 6
      [] check_name = "content_quality" -> 5
      [] check_name = "actionability" -> 4
      [] check_name = "specificity" -> 3
      [] check_name = "consistency" -> 2
      [] OTHER -> 2

QualityCheck(check_name, result, score) ==
    [check_name |-> check_name, result |-> result, score |-> score]

\* the verdict the four additive checks give a score
ScoreVerdict(score) ==
    IF score >= 80000 THEN "valid"
    ELSE IF score >= 50000 THEN "warning"
    ELSE "invalid"

\* score -= d/100 when the condition holds
Deduct(score, cond, d) == IF cond THEN float_sub(score, d) ELSE score

\* a confidence check that accepts every score
validate_confidence_score_lenient(result) ==
    QualityCheck("confidence_score", "valid", 100000)

\* _validate_confidence_score; confidence_score in hundredths
validate_confidence_score(result) ==
    IF result.confidence_score >= 80
      THEN QualityCheck("confidence_score", "valid", 100000)
    ELSE IF result.confidence_score >= min_confidence_threshold
      THEN QualityCheck("confidence_score", "warning", 70000)
    ELSE QualityCheck("confidence_score", "invalid", 30000)

\* _validate_content_quality
validate_content_quality(result) ==
    LET description_lower == Lower(result.description)
        recommendation_lower == Lower(result.recommendation)
        vague_words == {"maybe", "possibly", "might", "could be", "perhaps", "potentially"}
        vague_count == Cardinality({word \in vague_words :
                           In(word, description_lower) \/ In(word, recommendation_lower)})
        has_metrics == \/ DigitsThen("%", recommendation_lower)
                       \/ DigitsThen("x", recommendation_lower)
                       \/ AnyIn({"reduce", "increase", "improve"}, recommendation_lower)
        s1 == Deduct(100000, result.description = ""
                     \/ Len(Strip(result.description)) < min_description_length, 30)
        s2 == Deduct(s1, result.recommendation = ""
                     \/ Len(Strip(result.recommendation)) < min_recommendation_length, 30)
        s3 == Deduct(s2, vague_count > 2, 20)
        s4 == Deduct(s3, ~has_metrics, 10)
        score == Max(0, s4)
    IN  QualityCheck("content_quality", ScoreVerdict(score), score)

\* _validate_actionability
validate_actionability(result) ==
    LET recommendation_lower == Lower(result.recommendation)
        action_words == {"create", "add", "remove", "update", "modify", "implement",
                         "configure", "set up", "change"}
        specific_terms == {"field", "table", "view", "formula", "relationship",
                           "validation", "automation"}
        s1 == Deduct(100000, Len(result.implementation_steps)
                                < required_implementation_steps, 40)
        s2 == Deduct(s1, ~AnyIn(action_words, recommendation_lower), 30)
        s3 == Deduct(s2, result.effort \notin effort_patterns, 20)
        s4 == Deduct(s3, ~AnyIn(specific_terms, recommendation_lower), 10)
        score == Max(0, s4)
    IN  QualityCheck("actionability", ScoreVerdict(score), score)


\* _validate_specificity.category_keywords
category_keywords(category) ==
    CASE category = "structure" -> {"field", "organization", "layout", "grouping"}
      [] category = "normalization" -> {"normalize", "relationship", "redundancy", "dependency"}
      [] category = "field_types" -> {"type", "format", "validation", "constraint"}
      [] category = "relationships" -> {"link", "lookup", "rollup", "reference"}
      [] category = "performance" -> {"speed", "load", "query", "index"}
      [] category = "data_quality" -> {"validation", "consistency", "accuracy", "completeness"}
      [] OTHER -> {}

\* _validate_specificity
validate_specificity(result) ==
    LET description_lower == Lower(result.description)
        recommendation_lower == Lower(result.recommendation)
        has_table_refs == AnyIn({"table", "field", "column", "record"}, description_lower)
        generic_phrases == {"improve performance", "better organization",
                            "optimize structure", "enhance quality"}
        generic_count == CountIn(generic_phrases, recommendation_lower)
        has_quantification ==
            \/ DigitsThen("%", result.estimated_improvement)
            \/ DigitsThen("x", result.estimated_improvement)
            \/ ThenDigits("by ", result.estimated_improvement)
            \/ ThenLaterDigits("reduce", result.estimated_improvement)
            \/ ThenLaterDigits("increase", result.estimated_improvement)
        has_category_keywords == AnyIn(category_keywords(result.category), description_lower)
        s1 == Deduct(100000, ~has_table_refs, 30)
        s2 == Deduct(s1, generic_count > 1, 20)
        s3 == Deduct(s2, ~has_quantification /\ result.estimated_improvement # "", 20)
        s4 == Deduct(s3, ~has_category_keywords, 20)
        score == Max(0, s4)
    IN  QualityCheck("specificity", ScoreVerdict(score), score)

\* _validate_consistency.category_specific_checks
category_specific_checks(category) ==
    CASE category = "performance" -> {"performance", "speed", "optimization", "efficiency"}
      [] category = "data_quality" -> {"quality", "validation", "consistency", "accuracy"}
      [] category = "relationships" -> {"relationship", "link", "reference", "connection"}
      [] OTHER -> {}

\* _validate_consistency
validate_consistency(result) ==
    LET step_count == Len(result.implementation_steps)
        impact_lower == Lower(result.impact)
        content == Lower(result.description \o " " \o result.recommendation)
        s1 == Deduct(100000, /\ result.priority = "high" /\ result.effort = "high"
                             /\ ~In("critical", impact_lower)
                             /\ ~In("significant", impact_lower), 20)
        s2 == Deduct(s1, result.priority = "high" /\ result.confidence_score < 70, 20)
        s3 == Deduct(s2, \/ result.effort = "low" /\ step_count > 3
                         \/ result.effort = "high" /\ step_count < 2, 20)
        s4 == Deduct(s3, /\ category_specific_checks(result.category) # {}
                         /\ ~AnyIn(category_specific_checks(result.category), content), 30)
        score == Max(0, s4)
    IN  QualityCheck("consistency", ScoreVerdict(score), score)

\* the term lists of the _validate_<category>_category validators
category_validators(category) ==
    CASE category = "structure" ->
            {"field", "organization", "layout", "grouping", "structure", "design", "schema"}
      [] category = "normalization" ->
            {"normalize", "redundancy", "dependency", "relationship", "split", "separate",
             "duplicate"}
      [] category = "field_types" ->
            {"field type", "validation", "format", "constraint", "data type", "single line",
             "long text", "number", "date"}
      [] category = "relationships" ->
            {"relationship", "link", "lookup", "rollup", "reference", "connection",
             "foreign key"}
      [] category = "performance" ->
            {"performance", "speed", "optimization", "efficiency", "load time", "query",
             "index", "slow"}
      [] category = "data_quality" ->
            {"quality", "validation", "consistency", "accuracy", "completeness", "integrity",
             "clean", "standardize"}
      [] OTHER -> {}

\* _validate_category_alignment
validate_category_alignment(result) ==
    LET content == Lower(result.description \o " " \o result.recommendation)
    IN  IF category_validators(result.category) = {}
          THEN QualityCheck("category_alignment", "warning", 70000)
        ELSE IF AnyIn(category_validators(result.category), content)
          THEN QualityCheck("category_alignment", "valid", 100000)
        ELSE QualityCheck("category_alignment", "warning", 50000)

\* QualityAssuranceService.validate_analysis_result: the six checks in order
validate_analysis_result(result) ==
    << validate_confidence_score(result),
       validate_content_quality(result),
       validate_actionability(result),
       validate_specificity(result),
       validate_consistency(result),
       validate_category_alignment(result) >>

RECURSIVE SumSeq(_)
SumSeq(s) == IF s = <<>> THEN 0 ELSE Head(s) + SumSeq(Tail(s))

\* _calculate_result_quality_score, as the exact quotient
\* weighted_score / total_weight of the checks' hundredths.  The double the
\* code returns lies within 1e-15 of num / (100 * den).
calculate_result_quality_score(quality_checks) ==
    IF quality_checks = <<>> THEN [num |-> 0, den |-> 1]
    ELSE [num |-> SumSeq([i \in 1..Len(quality_checks) |->
                     Hundredths(quality_checks[i].score)
                       * quality_weights(quality_checks[i].check_name)]),
          den |-> SumSeq([i \in 1..Len(quality_checks) |->
                     quality_weights(quality_checks[i].check_name)])]

\* min(quality_checks, key=lambda c: c.score): the first check of least score
worst_check(quality_checks) ==
    LET least == CHOOSE i \in 1..Len(quality_checks) :
                    /\ \A j \in 1..Len(quality_checks) :
                          quality_checks[i].score <= quality_checks[j].score
                    /\ \A j \in 1..(i - 1) :
                          quality_checks[j].score > quality_checks[i].score
    IN  quality_checks[least]


(***************************************************************************)
(* SpecQuality: validate_analysis_result and _calculate_result_quality_score *)
(* on one finding drawn from the fields below.                             *)
(***************************************************************************)
Descriptions ==
    { "Bad",
      "Contact fields are scattered in the table",
      "Queries are slow and the load time is high",
      "Maybe it could be better, possibly, perhaps" }

Recommendations ==
    { "Fix it",
      "Add a lookup field to the table and reduce load by 30%",
      "Improve performance and optimize structure for better organization",
      "Group the contact columns together at the start" }

Impacts == {"Better", "Critical for data entry"}

Efforts == {"low", "medium", "high", "unknown"}

Priorities == {"high", "low"}

Improvements == {"", "Some improvement", "30% faster data entry"}

StepLists == {<<>>, <<"s1">>, <<"s1", "s2">>, <<"s1", "s2", "s3", "s4">>}

\* confidence_score in hundredths
Confidences == {20, 60, 75, 92}

FindingCategories == {"structure", "performance", "naming_conventions"}

\* AnalysisResult
Findings ==
    [category : FindingCategories, priority : Priorities, description : Descriptions,
     recommendation : Recommendations, impact : Impacts, effort : Efforts,
     estimated_improvement : Improvements, implementation_steps : StepLists,
     confidence_score : Confidences]

QualityInit ==
    /\ pf_prev \in [fn : {"AnalysisResult"}, result : Findings]
    /\ pf_last = NoCall

ValidateOne ==
    /\ pf_prev.fn = "AnalysisResult"
    /\ pf_last = NoCall
    /\ LET quality_checks == validate_analysis_result(pf_prev.result)
       IN  pf_last' = [fn |-> "validate_analysis_result",
                       quality_checks |-> quality_checks,
                       overall_score |-> calculate_result_quality_score(quality_checks)]
    /\ pf_prev' = pf_prev

InitQuality == FTInit /\ CLInit /\ WFInit /\ BAInit /\ RLInit /\ QualityInit /\ QAInit /\ AJInit

NextQuality == ValidateOne /\ UNCHANGED otherThanPF

SpecQuality == InitQuality /\ [][NextQuality]_vars


\* the exact quotient is above / below t hundredths; the double the code
\* returns is then on the same side of t / 100
ScoreAbove(overall_score, t) == overall_score.num > t * overall_score.den
ScoreBelow(overall_score, t) == overall_score.num < t * overall_score.den

Validated == pf_last.fn = "validate_analysis_result"

CheckNamed(check_name) ==
    LET i == CHOOSE i \in 1..Len(pf_last.quality_checks) :
                 pf_last.quality_checks[i].check_name = check_name
    IN  pf_last.quality_checks[i]

\* confidence 0.92, implementation steps there, content matching the category
HighQualityCase ==
    /\ pf_prev.result.confidence_score = 92
    /\ Len(pf_prev.result.implementation_steps) >= required_implementation_steps
    /\ CheckNamed("category_alignment").result = "valid"

\* confidence 0.2, no implementation steps, effort "unknown"
LowQualityCase ==
    /\ pf_prev.result.confidence_score = 20
    /\ pf_prev.result.implementation_steps = <<>>
    /\ pf_prev.result.effort = "unknown"

AllChecksValid ==
    \A i \in 1..Len(pf_last.quality_checks) : pf_last.quality_checks[i].result = "valid"

\* C14 as stated: every finding of the high-quality kind scores >= 0.8 and
\* every finding of the low-quality kind scores < 0.5, whatever its other
\* fields are.
C14_ScoreWhateverOtherFields ==
    Validated =>
        /\ HighQualityCase => ~ScoreBelow(pf_last.overall_score, 80)
        /\ LowQualityCase => ScoreBelow(pf_last.overall_score, 50)

\* C14: a finding of the high-quality kind scores >= 0.8 when all six of its
\* checks are valid, and a finding of the low-quality kind always scores
\* below 0.8.
C14_ScoreByChecks ==
    Validated =>
        /\ (HighQualityCase /\ AllChecksValid) => ScoreAbove(pf_last.overall_score, 80)
        /\ LowQualityCase => ScoreBelow(pf_last.overall_score, 80)

\* a low-quality finding whose other fields are good: its score is 0.7
C14_Witness ==
    /\ Validated
    /\ LowQualityCase
    /\ CheckNamed("content_quality").result = "valid"
    /\ CheckNamed("specificity").result = "valid"
    /\ pf_last.overall_score.num = 70 * pf_last.overall_score.den


(***************************************************************************)
(* SpecValidate: QualityAssuranceService.validate_batch_results, one       *)
(* finding of the batch per step, in the order the loops meet them.  The   *)
(* result map is kept flat: a finding is known by its position.            *)
(***************************************************************************)
MaxFindings == 3

\* the findings the batches are made of
BatchFindings ==
    [category : {"structure"}, priority : {"high"},
     description : {"Bad", "Contact fields are scattered in the table"},
     recommendation : {"Fix it", "Add a lookup field to the table and reduce load by 30%"},
     impact : {"Better"}, effort : {"low", "unknown"},
     estimated_improvement : {"30% faster data entry"},
     implementation_steps : {<<>>, <<"s1">>},
     confidence_score : {20, 60, 92}]

\* statistics with one more analysis counted, none under a verdict
count_total_only(statistics, verdict) ==
    [statistics EXCEPT !.total_analyses = @ + 1]

\* lines 126 and 139-149: the counters of one analysis
count_analysis(statistics, verdict) ==
    [statistics EXCEPT
        !.total_analyses = @ + 1,
        !.valid_analyses = IF verdict = "valid" THEN @ + 1 ELSE @,
        !.warning_analyses = IF verdict = "warning" THEN @ + 1 ELSE @,
        !.invalid_analyses = IF verdict \notin {"valid", "warning"} THEN @ + 1 ELSE @]

\* the finding as the loop holds it: the AnalysisResult object
AsResult(id) == [analysis |-> id, quality_warning |-> "absent"]

\* lines 145-146: analysis.to_dict() with the quality_warning entry
AsFlaggedDict(id, message) == [analysis |-> id, quality_warning |-> message]

\* lines 141 and 145-147: what category_filtered.append receives
filtered_entry(id, worst) ==
    LET analysis == AsResult(id)
        analysis_dict == AsFlaggedDict(id, worst.check_name)
    IN  analysis

\* validate_analysis_result over the findings of the batches, as an
\* explicit table (f @@ <<>> is f)
BatchChecks ==
    [analysis \in BatchFindings |-> validate_analysis_result(analysis)] @@ <<>>

StartValidation ==
    /\ qa_pc = "idle"
    /\ qa_pc' = "loop"
    /\ validation_summary' = NoSummary
    /\ qa_input' = <<>>

\* lines 125-155: one analysis of the batch
ValidateNext(analysis) ==
    /\ qa_pc = "loop"
    /\ Len(qa_input) < MaxFindings
    /\ LET id == Len(qa_input) + 1
           quality_checks == BatchChecks[analysis]
           worst == worst_check(quality_checks)
       IN  /\ qa_input' = Append(qa_input,
                 [verdicts |-> {quality_checks[i].result : i \in 1..Len(quality_checks)},
                  worst |-> worst.result])
           /\ validation_summary' =
                 [statistics |-> count_analysis(validation_summary.statistics, worst.result),
                  filtered_results |->
                     IF worst.result \in {"valid", "warning"}
                       THEN Append(validation_summary.filtered_results,
                                   filtered_entry(id, worst))
                       ELSE validation_summary.filtered_results,
                  quality_issues |->
                     IF worst.result \in {"valid", "warning"}
                       THEN validation_summary.quality_issues
                       ELSE Append(validation_summary.quality_issues,
                                   [analysis |-> id, issue |-> worst.check_name])]
    /\ qa_pc' = qa_pc

\* the loops are over: line 181 returns the summary
ReturnSummary ==
    /\ qa_pc = "loop"
    /\ qa_pc' = "returned"
    /\ UNCHANGED <<qa_input, validation_summary>>

NextValidate ==
    \/ StartValidation /\ UNCHANGED otherThanQA
    \/ \E analysis \in BatchFindings : ValidateNext(analysis) /\ UNCHANGED otherThanQA
    \/ ReturnSummary /\ UNCHANGED otherThanQA

SpecValidate == Init /\ [][NextValidate]_vars

InFiltered(id) ==
    \E n \in 1..Len(validation_summary.filtered_results) :
        validation_summary.filtered_results[n].analysis = id

FilteredEntry(id) ==
    validation_summary.filtered_results[
        CHOOSE n \in 1..Len(validation_summary.filtered_results) :
            validation_summary.filtered_results[n].analysis = id]

IssueCount(id) ==
    Cardinality({n \in 1..Len(validation_summary.quality_issues) :
                    validation_summary.quality_issues[n].analysis = id})

\* the worst verdict among a finding's checks
WorstVerdict(verdicts) ==
    IF "invalid" \in verdicts THEN "invalid"
    ELSE IF "warning" \in verdicts THEN "warning" ELSE "valid"

\* C12, without the flag: a finding is absent from filtered_results exactly
\* when one of its six checks is invalid, and then it is exactly once in
\* quality_issues
FilteredByWorstVerdict ==
    \A id \in 1..Len(qa_input) :
        /\ ~InFiltered(id) <=> "invalid" \in qa_input[id].verdicts
        /\ IssueCount(id) = IF InFiltered(id) THEN 0 ELSE 1

\* C12: a finding is absent from filtered_results if and only if one of its
\* six checks is invalid; a finding whose worst verdict is warning is in
\* filtered_results and carries a quality-warning flag there; every excluded
\* finding is exactly once in quality_issues.
C12_FilterAndFlag ==
    /\ FilteredByWorstVerdict
    /\ \A id \in 1..Len(qa_input) :
          WorstVerdict(qa_input[id].verdicts) = "warning" =>
              /\ InFiltered(id)
              /\ FilteredEntry(id).quality_warning # "absent"

\* C13: valid + warning + invalid = total_analyses at every point of the
\* loop, and the returned total_analyses is the number of findings in the
\* input.
C13_StatisticsAddUp ==
    LET st == validation_summary.statistics
    IN  /\ st.valid_analyses + st.warning_analyses + st.invalid_analyses = st.total_analyses
        /\ st.total_analyses = Len(qa_input)
        /\ st.invalid_analyses = Len(validation_summary.quality_issues)
        /\ st.valid_analyses + st.warning_analyses = Len(validation_summary.filtered_results)

\* a returned summary over a batch with a valid, a warning and an invalid finding
C13_Witness ==
    /\ qa_pc = "returned"
    /\ validation_summary.statistics.total_analyses = MaxFindings
    /\ validation_summary.statistics.valid_analyses >= 1
    /\ validation_summary.statistics.warning_analyses >= 1
    /\ validation_summary.statistics.invalid_analyses >= 1


(***************************************************************************)
(* SpecParse: TableAnalysisService._parse_analysis_response.  The provider *)
(* text is a sequence of parts: prose without brackets, "[", "]", and JSON *)
(* values (a comma stands between a value or "]" and the value or "[" that *)
(* follows it).  A JSON value is typed: str, num (hundredths), null, or an *)
(* object, a function from its keys to values.                             *)
(***************************************************************************)
MaxParts == 4

Str(v) == [t |-> "str", v |-> v]
Num(n) == [t |-> "num", n |-> n]
Null == [t |-> "null"]
Obj(fields) == [t |-> "object", fields |-> fields]
List == [t |-> "list"]
Prose == [t |-> "prose"]
Open == [t |-> "["]
Close == [t |-> "]"]

\* a finding as the prompt asks for it
GoodFinding ==
    Obj([priority |-> Str("medium"), effort |-> Str("low"), confidence_score |-> Num(85)])
\* values outside the closed sets
OddFinding ==
    Obj([priority |-> Str("urgent"), effort |-> Num(3), confidence_score |-> Num(150)])
\* none of the fields the service validates later
SparseFinding == Obj([issue_type |-> Str("none")])
\* a confidence that float() rejects with ValueError
WordConfidence == Obj([priority |-> Str("high"), confidence_score |-> Str("high")])
\* a confidence that float() rejects with TypeError
NullConfidence == Obj([priority |-> Str("low"), confidence_score |-> Null])
\* a negative confidence given as a numeric string
TextConfidence == Obj([effort |-> Str("high"), confidence_score |-> Str("-0.2")])

JsonValues ==
    {GoodFinding, OddFinding, SparseFinding, WordConfidence, NullConfidence,
     TextConfidence, Str("none")}

Parts == {Prose, Open, Close} \cup JsonValues

ResponseTexts == UNION {[1..n -> Parts] : n \in 0..MaxParts}

\* str.find('['): the first position (1-based), 0 when there is none
find(text, c) ==
    IF \E i \in 1..Len(text) : text[i] = c
      THEN CHOOSE i \in 1..Len(text) :
              text[i] = c /\ \A j \in 1..(i - 1) : text[j] # c
      ELSE 0

\* str.rfind(']'): the last position (1-based), 0 when there is none
rfind(text, c) ==
    IF \E i \in 1..Len(text) : text[i] = c
      THEN CHOOSE i \in 1..Len(text) :
              text[i] = c /\ \A j \in (i + 1)..Len(text) : text[j] # c
      ELSE 0

RECURSIVE ParseArray(_, _, _)
\* the JSON decoder inside an array, from position i on
ParseArray(text, i, acc) ==
    IF i > Len(text) THEN [ok |-> FALSE]
    ELSE IF text[i] = Close THEN [ok |-> TRUE, value |-> acc, next |-> i + 1]
    ELSE IF text[i] = Prose THEN [ok |-> FALSE]
    ELSE IF text[i] = Open
      THEN LET inner == ParseArray(text, i + 1, <<>>)
           IN  IF inner.ok THEN ParseArray(text, inner.next, Append(acc, List))
               ELSE [ok |-> FALSE]
    ELSE ParseArray(text, i + 1, Append(acc, text[i]))

\* json.loads on a text that begins with "[": the list, or JSONDecodeError
json_loads(json_text) ==
    LET r == ParseArray(json_text, 2, <<>>)
    IN  IF r.ok /\ r.next = Len(json_text) + 1
          THEN [ok |-> TRUE, value |-> r.value]
          ELSE [ok |-> FALSE, exc |-> "JSONDecodeError"]

\* the numeric strings of the model
NumericStrings == [s \in {"-0.2"} |-> -20]

\* float(x)
to_float(x) ==
    IF x.t = "num" THEN [ok |-> TRUE, value |-> x.n]
    ELSE IF x.t = "str"
      THEN IF x.v \in DOMAIN NumericStrings
             THEN [ok |-> TRUE, value |-> NumericStrings[x.v]]
             ELSE [ok |-> FALSE, exc |-> "ValueError"]
    ELSE [ok |-> FALSE, exc |-> "TypeError"]

\* finding.get(key, default)
get(finding, key, default) ==
    IF key \in DOMAIN finding.fields THEN finding.fields[key] ELSE default

\* lines 529-542: the AnalysisResult of one element, or the exception raised
make_result(finding, table_id, category) ==
    IF finding.t # "object" THEN [ok |-> FALSE, exc |-> "AttributeError"]
    ELSE LET confidence == to_float(get(finding, "confidence_score", Num(70)))
         IN  IF ~confidence.ok THEN [ok |-> FALSE, exc |-> confidence.exc]
             ELSE [ok |-> TRUE,
                   value |-> [table_id |-> table_id, category |-> category,
                              priority |-> get(finding, "priority", Str("medium")),
                              effort |-> get(finding, "effort", Str("medium")),
                              confidence_score |-> confidence.value]]

\* an outer handler for JSON errors only
outer_except_json_only(exc) == exc = "JSONDecodeError"

\* lines 551-556: except json.JSONDecodeError / except Exception
outer_except(exc) ==
    exc \in {"JSONDecodeError", "AttributeError", "KeyError", "ValueError", "TypeError"}

\* line 545: except (KeyError, ValueError, TypeError)
inner_except(exc) == exc \in {"KeyError", "ValueError", "TypeError"}

RECURSIVE convert(_, _, _, _)
\* lines 526-549: the loop over the findings
convert(findings, table_id, category, acc) ==
    IF findings = <<>> THEN [kind |-> "returned", results |-> acc]
    ELSE LET r == make_result(Head(findings), table_id, category)
         IN  IF r.ok
               THEN convert(Tail(findings), table_id, category, Append(acc, r.value))
             ELSE IF inner_except(r.exc)
               THEN convert(Tail(findings), table_id, category, acc)
             ELSE [kind |-> "raised", exc |-> r.exc]

\* the body of the try block, lines 515-549
parse_body(response_text, table_id, category) ==
    LET json_start == find(response_text, Open)
        json_end == rfind(response_text, Close)
    IN  IF json_start = 0 \/ json_end = 0 THEN [kind |-> "returned", results |-> <<>>]
        ELSE IF json_end < json_start THEN [kind |-> "raised", exc |-> "JSONDecodeError"]
        ELSE LET findings == json_loads(SubSeq(response_text, json_start, json_end))
             IN  IF ~findings.ok THEN [kind |-> "raised", exc |-> findings.exc]
                 ELSE convert(findings.value, table_id, category, <<>>)

\* TableAnalysisService._parse_analysis_response
parse_analysis_response(response_text, table_id, category) ==
    LET body == parse_body(response_text, table_id, category)
    IN  IF body.kind = "raised" /\ outer_except(body.exc)
          THEN [kind |-> "returned", results |-> <<>>]
          ELSE body


ParseTableIds == {"tblA", "tblB"}
ParseCategories == {"structure", "performance"}

ParseInit ==
    /\ pf_prev \in [fn : {"response"}, response_text : ResponseTexts,
                    table_id : ParseTableIds, category : ParseCategories]
    /\ pf_last = NoCall

\* one call of _parse_analysis_response on the response text
ParseResponse ==
    /\ pf_prev.fn = "response"
    /\ pf_last = NoCall
    /\ pf_last' = [fn |-> "_parse_analysis_response",
                   outcome |-> parse_analysis_response(pf_prev.response_text,
                                                       pf_prev.table_id, pf_prev.category)]
    /\ pf_prev' = pf_prev

InitParse == FTInit /\ CLInit /\ WFInit /\ BAInit /\ RLInit /\ ParseInit /\ QAInit /\ AJInit

NextParse == ParseResponse /\ UNCHANGED otherThanPF

SpecParse == InitParse /\ [][NextParse]_vars

Parsed == pf_last.fn = "_parse_analysis_response"

\* the findings the call returned
Returned ==
    IF Parsed /\ pf_last.outcome.kind = "returned" THEN pf_last.outcome.results ELSE <<>>

\* C15: every finding produced from a provider response has priority in
\* {high, medium, low}, effort in {low, medium, high} and confidence in [0,1],
\* whatever values the response contains.
C15_ClosedSets ==
    \A i \in 1..Len(Returned) :
        /\ Returned[i].priority \in {Str("high"), Str("medium"), Str("low")}
        /\ Returned[i].effort \in {Str("low"), Str("medium"), Str("high")}
        /\ Returned[i].confidence_score \in 0..100

\* the response holds an array that decodes
Decodes(response_text) ==
    /\ find(response_text, Open) # 0
    /\ rfind(response_text, Close) >= find(response_text, Open)
    /\ json_loads(SubSeq(response_text, find(response_text, Open),
                         rfind(response_text, Close))).ok

\* the list the response decodes to
Decoded(response_text) ==
    json_loads(SubSeq(response_text, find(response_text, Open),
                      rfind(response_text, Close))).value

HasNonObject(findings) == \E i \in 1..Len(findings) : findings[i].t # "object"

\* C20: for every provider response text the parser returns a list and never
\* raises; the list is empty when the text holds no array that decodes or an
\* array with an element that is not an object; every finding returned
\* carries the table id and the category of the call.
C20_ParseNeverRaises ==
    Parsed =>
        /\ pf_last.outcome.kind = "returned"
        /\ (~Decodes(pf_prev.response_text) => Returned = <<>>)
        /\ (Decodes(pf_prev.response_text) /\ HasNonObject(Decoded(pf_prev.response_text))
               => Returned = <<>>)
        /\ \A i \in 1..Len(Returned) :
              /\ Returned[i].table_id = pf_prev.table_id
              /\ Returned[i].category = pf_prev.category

\* an array of a finding and a string was parsed: the loop raised
\* AttributeError and the call returned the empty list
C20_Witness ==
    /\ Parsed
    /\ pf_prev.response_text = <<Open, GoodFinding, Str("none"), Close>>
    /\ pf_last.outcome = [kind |-> "returned", results |-> <<>>]

\* a finding was returned from prose followed by an array
C20_FindingReturned ==
    /\ Parsed
    /\ pf_prev.response_text = <<Prose, Open, GoodFinding, Close>>
    /\ Len(Returned) = 1


\* C16: in every reachable state and for every operation name, the circuit
\* is open only if its failure count is at least its threshold.
C16_OpenOnlyAtThreshold ==
    \A op \in OpNames :
        circuit_breakers[op].is_open =>
            circuit_breakers[op].failure_count >= circuit_threshold

\* a circuit that went half-open was opened again by the next failure
C16_Witness ==
    \E op \in OpNames :
        /\ circuit_breakers[op].is_open
        /\ circuit_breakers[op].half_open
        /\ circuit_breakers[op].failure_count > circuit_threshold


\* the steps of the background task at which work begins: discovery, the
\* batch analysis, the metadata update
WorkInFlight == {"discover", "analyze", "update"}

\* C17: once a pending or running job is marked cancelled, its background
\* task starts no new work: it begins no discovery, no table analysis and
\* no metadata update (work in flight may finish).
C17_NoNewWorkAfterCancel ==
    [][\A j \in JobIds :
          workflow_jobs[j].status = "cancelled" /\ wf_task'[j].pc # wf_task[j].pc
              => wf_task'[j].pc \notin WorkInFlight]_vars

\* the step is a cancellation request for job j
CancelStep(j) ==
    /\ wf_response'.handler = "cancel"
    /\ wf_response'.job = j
    /\ wf_response' # wf_response

\* C18: a cancellation request for a job whose status is completed or
\* failed changes nothing in the job registry and answers with an
\* explanatory message instead of an error.
C18_CancelFinishedJob ==
    [][\A j \in JobIds :
          CancelStep(j) /\ workflow_jobs[j].status \in {"completed", "failed"}
              => /\ workflow_jobs' = workflow_jobs
                 /\ wf_task' = wf_task
                 /\ wf_response' = Response("cancel", j, 200,
                        "Workflow is " \o workflow_jobs[j].status \o " and cannot be cancelled")]_vars

\* a cancellation request for a completed job was answered
C18_Witness ==
    \E j \in JobIds :
        /\ workflow_jobs[j].status = "completed"
        /\ wf_response = Response("cancel", j, 200,
                                  "Workflow is completed and cannot be cancelled")


(***************************************************************************)
(* SpecJobs: the two job registries and their routes.  The batch routes    *)
(* of routes/table_analysis.py answer through wf_response as the workflow  *)
(* routes do.  _run_batch_analysis suspends only at its await of           *)
(* analyze_tables_batch.                                                   *)
(***************************************************************************)
\* POST /api/v1/analysis/batch
start_batch_analysis(j) ==
    /\ ~analysis_jobs[j].exists
    /\ analysis_jobs' = [analysis_jobs EXCEPT ![j] =
            [exists |-> TRUE, status |-> "pending", results |-> "none", error |-> "none"]]
    /\ aj_task' = [aj_task EXCEPT ![j] = "scheduled"]
    /\ wf_response' = Response("batch_start", j, 200, "started")

\* GET /batch/{job_id}/status
get_batch_status(j) ==
    /\ wf_response' =
          IF ~analysis_jobs[j].exists THEN Response("batch_status", j, 404, "Job not found")
          ELSE Response("batch_status", j, 200, analysis_jobs[j].status)
    /\ UNCHANGED <<analysis_jobs, aj_task>>

\* `job.results or {}`
results_or_empty(payload) == IF payload = "none" THEN "{}" ELSE payload

\* a results route that answers in every status
get_batch_results_any_status(j) ==
    /\ wf_response' =
          IF ~analysis_jobs[j].exists THEN Response("batch_results", j, 404, "Job not found")
          ELSE Response("batch_results", j, 200, results_or_empty(analysis_jobs[j].results))
    /\ UNCHANGED <<analysis_jobs, aj_task>>

\* GET /batch/{job_id}/results
get_batch_results(j) ==
    /\ wf_response' =
          IF ~analysis_jobs[j].exists THEN Response("batch_results", j, 404, "Job not found")
          ELSE IF analysis_jobs[j].status # "completed"
            THEN Response("batch_results", j, 400, "Job not completed")
          ELSE Response("batch_results", j, 200, results_or_empty(analysis_jobs[j].results))
    /\ UNCHANGED <<analysis_jobs, aj_task>>

\* _run_batch_analysis, lines 396-400: the except branch
BatchRunFails(j) ==
    /\ analysis_jobs' = [analysis_jobs EXCEPT ![j].status = "failed", ![j].error = "text"]
    /\ aj_task' = [aj_task EXCEPT ![j] = "finished"]

\* _run_batch_analysis, lines 329-351: up to the await of
\* analyze_tables_batch; TableAnalysisService() may raise
BatchRunStarts(j) ==
    /\ aj_task[j] = "scheduled"
    /\ \/ /\ analysis_jobs' = [analysis_jobs EXCEPT ![j].status = "running"]
          /\ aj_task' = [aj_task EXCEPT ![j] = "analyze"]
       \/ BatchRunFails(j)
    /\ UNCHANGED wf_response

\* _run_batch_analysis, lines 347-400: analyze_tables_batch returns or
\* raises; the response models are built (their timestamp: str fields are
\* given time.time(), which pydantic 1 converts and pydantic 2 rejects);
\* the job is updated
BatchRunReturns(j) ==
    /\ aj_task[j] = "analyze"
    /\ \E outcome \in {"raises", "rejected", "converted"} :
          IF outcome = "converted"
            THEN /\ analysis_jobs' = [analysis_jobs EXCEPT
                        ![j].status = "completed", ![j].results = "batch_response"]
                 /\ aj_task' = [aj_task EXCEPT ![j] = "finished"]
            ELSE BatchRunFails(j)
    /\ UNCHANGED wf_response

NextJobs ==
    \/ NextWorkflow
    \/ \E j \in BatchJobIds :
          start_batch_analysis(j) /\ UNCHANGED <<workflow_jobs, wf_task, otherThanWF_AJ>>
    \/ \E j \in BatchJobIds :
          get_batch_status(j) /\ UNCHANGED <<workflow_jobs, wf_task, otherThanWF_AJ>>
    \/ \E j \in BatchJobIds :
          get_batch_results(j) /\ UNCHANGED <<workflow_jobs, wf_task, otherThanWF_AJ>>
    \/ \E j \in BatchJobIds :
          BatchRunStarts(j) /\ UNCHANGED <<workflow_jobs, wf_task, otherThanWF_AJ>>
    \/ \E j \in BatchJobIds :
          BatchRunReturns(j) /\ UNCHANGED <<workflow_jobs, wf_task, otherThanWF_AJ>>

SpecJobs == InitWorkflow /\ [][NextJobs]_vars

\* the step is a results request for workflow job j
WorkflowResultsStep(j) ==
    /\ wf_response'.handler = "results"
    /\ wf_response'.job = j
    /\ wf_response' # wf_response

\* the step is a results request for batch job j
BatchResultsStep(j) ==
    /\ wf_response'.handler = "batch_results"
    /\ wf_response'.job = j
    /\ wf_response' # wf_response

\* C19: the results endpoints return a job's result payload only when the
\* job's status is completed and answer 400 in every other status; and in
\* every state where a job's status is completed its results payload is
\* present.
C19_ResultsOnlyWhenCompleted ==
    /\ [][/\ \A j \in JobIds :
                WorkflowResultsStep(j) /\ workflow_jobs[j].exists =>
                    IF workflow_jobs[j].status = "completed"
                      THEN wf_response' = Response("results", j, 200, workflow_jobs[j].results)
                      ELSE wf_response'.code = 400
          /\ \A j \in BatchJobIds :
                BatchResultsStep(j) /\ analysis_jobs[j].exists =>
                    IF analysis_jobs[j].status = "completed"
                      THEN wf_response' =
                               Response("batch_results", j, 200, analysis_jobs[j].results)
                      ELSE wf_response'.code = 400]_vars
    /\ [](/\ \A j \in JobIds :
                workflow_jobs[j].status = "completed" => workflow_jobs[j].results # "none"
          /\ \A j \in BatchJobIds :
                analysis_jobs[j].status = "completed" => analysis_jobs[j].results # "none")

\* the results of a completed batch job were returned while a workflow job
\* stands completed
C19_Witness ==
    /\ \E j \in BatchJobIds :
          /\ analysis_jobs[j].status = "completed"
          /\ wf_response = Response("batch_results", j, 200, "batch_response")
    /\ \E j \in JobIds : workflow_jobs[j].status = "completed"

\* the results of a completed workflow job were returned
C19_WorkflowResultsReturned ==
    \E j \in JobIds :
        /\ workflow_jobs[j].status = "completed"
        /\ wf_response = Response("results", j, 200, workflow_jobs[j].results)


(***************************************************************************)
(* SpecEstimate: TableAnalysisService.estimate_batch_cost and the route    *)
(* GET /estimate-cost.  Money is counted in units of 0.00001 before        *)
(* rounding and of 0.0001 after round(x, 4); time in half minutes.  The    *)
(* `categories` argument is [none |-> TRUE] for None and a list otherwise. *)
(***************************************************************************)
MaxTableCount == 3
MaxCategories == 2

\* list(AnalysisCategory)
AllCategories ==
    <<"structure", "normalization", "field_types", "relationships", "performance",
      "data_quality", "naming_conventions", "indexing">>

\* category_costs.get(cat, 0.02)
category_cost(cat) ==
    CASE cat = "structure" -> 2000
      [] cat = "normalization" -> 2500
      [] cat = "field_types" -> 1500
      [] cat = "relationships" -> 3000
      [] cat = "performance" -> 2000
      [] cat = "data_quality" -> 2000
      [] cat = "naming_conventions" -> 1000
      [] cat = "indexing" -> 1500
      [] OTHER -> 2000

RECURSIVE sum_costs(_)
\* sum(category_costs.get(cat, 0.02) for cat in categories)
sum_costs(categories) ==
    IF categories = <<>> THEN 0
    ELSE category_cost(Head(categories)) + sum_costs(Tail(categories))

\* round(x, 1), in units of 0.0001
round1(x) ==
    LET q == x \div 10000
        r == x % 10000
    IN  1000 * (IF r < 5000 \/ (r = 5000 /\ q % 2 = 0) THEN q ELSE q + 1)

\* round(x, 4): x in units of 0.00001, the result in units of 0.0001,
\* a tie going to the even neighbour
round4(x) ==
    LET q == x \div 10
        r == x % 10
    IN  IF r < 5 \/ (r = 5 /\ q % 2 = 0) THEN q ELSE q + 1

NoCategories == [none |-> TRUE, list |-> <<>>]
CategoryList(list) == [none |-> FALSE, list |-> list]

\* TableAnalysisService.estimate_batch_cost
estimate_batch_cost(table_count, categories) ==
    LET cats == IF categories.none THEN AllCategories ELSE categories.list
        total_estimated_cost == sum_costs(cats) * table_count
    IN  IF table_count = 0
          THEN \* total_estimated_cost / table_count
               [kind |-> "raised", exc |-> "ZeroDivisionError"]
          ELSE [kind |-> "returned",
                estimated_total_cost |-> round4(total_estimated_cost),
                cost_per_table |-> round4(total_estimated_cost \div table_count),
                categories_count |-> Len(cats),
                table_count |-> table_count,
                estimated_time_half_minutes |-> table_count * Len(cats)]

\* GET /estimate-cost: `categories or list(AnalysisCategory)`, then the
\* estimate, or 500 for any exception
estimate_analysis_cost(table_count, categories) ==
    LET given == IF categories.none \/ categories.list = <<>>
                   THEN CategoryList(AllCategories) ELSE categories
        estimate == estimate_batch_cost(table_count, given)
    IN  IF estimate.kind = "raised"
          THEN [code |-> 500, detail |-> "Cost estimation failed", provider_calls |-> 0]
          ELSE [code |-> 200, estimate |-> estimate, provider_calls |-> 0]

\* three categories of different cost; "custom" is no AnalysisCategory
EstimateCategories == {"normalization", "naming_conventions", "custom"}

CategoryArguments ==
    {NoCategories} \cup
    {CategoryList(list) :
        list \in UNION {[1..n -> EstimateCategories] : n \in 0..MaxCategories}}

EstimateCall(table_count, categories) ==
    [fn |-> "estimate_batch_cost", table_count |-> table_count, categories |-> categories,
     result |-> estimate_batch_cost(table_count, categories),
     response |-> estimate_analysis_cost(table_count, categories)]

\* one call of the service method and of the route on the same arguments
Estimate(table_count, categories) ==
    /\ pf_prev' = pf_last
    /\ pf_last' = EstimateCall(table_count, categories)

NextEstimate ==
    \E table_count \in 0..MaxTableCount, categories \in CategoryArguments :
        Estimate(table_count, categories) /\ UNCHANGED otherThanPF

SpecEstimate == Init /\ [][NextEstimate]_vars

\* two estimates that returned
TwoEstimates ==
    /\ pf_prev.fn = "estimate_batch_cost"
    /\ pf_last.fn = "estimate_batch_cost"
    /\ pf_prev.result.kind = "returned"
    /\ pf_last.result.kind = "returned"

\* the later call has the earlier call's list and one more category
OneMoreCategory ==
    /\ ~pf_prev.categories.none
    /\ ~pf_last.categories.none
    /\ Len(pf_last.categories.list) = Len(pf_prev.categories.list) + 1
    /\ SubSeq(pf_last.categories.list, 1, Len(pf_prev.categories.list))
          = pf_prev.categories.list

\* C21: estimated_total_cost is strictly increasing in table_count for a
\* fixed non-empty category list, and strictly increasing when one more
\* category is added to the list for a fixed table_count >= 1.
C21_CostIncreases ==
    TwoEstimates =>
        /\ (/\ pf_prev.categories = pf_last.categories
            /\ (pf_prev.categories.none \/ pf_prev.categories.list # <<>>)
            /\ pf_prev.table_count < pf_last.table_count)
              => pf_prev.result.estimated_total_cost < pf_last.result.estimated_total_cost
        /\ (/\ OneMoreCategory
            /\ pf_prev.table_count = pf_last.table_count
            /\ pf_last.table_count >= 1)
              => pf_prev.result.estimated_total_cost < pf_last.result.estimated_total_cost

\* an estimate for one table of one category was followed by one for more
\* tables of the same list
C21_Witness ==
    /\ TwoEstimates
    /\ pf_prev.categories = CategoryList(<<"naming_conventions">>)
    /\ pf_last.categories = pf_prev.categories
    /\ pf_prev.table_count = 1
    /\ pf_last.table_count = 3
    /\ pf_prev.result.estimated_total_cost = 100
    /\ pf_last.result.estimated_total_cost = 300

\* an estimate was followed by one with one more category
C21_CategoryAdded ==
    /\ TwoEstimates
    /\ OneMoreCategory
    /\ pf_prev.table_count = pf_last.table_count
    /\ pf_prev.result.estimated_total_cost < pf_last.result.estimated_total_cost

\* C22: for every table_count >= 0 and every list of categories, the
\* cost-estimate operations return an estimate without invoking the
\* completion provider and without raising.
C22_EstimateNeverFails ==
    pf_last.fn = "estimate_batch_cost" =>
        /\ pf_last.result.kind = "returned"
        /\ pf_last.response.code = 200
        /\ pf_last.response.provider_calls = 0


(***************************************************************************)
(* SpecConcurrent: several execute_with_fallback calls in flight on one    *)
(* operation name (coroutines of one event loop, each suspended at         *)
(* `await operation()` or `await asyncio.sleep(delay)`).                   *)
(***************************************************************************)
SharedOpNames == {"analysis"}
ConcurrentInputs == {<<"simplified", "absent">>}

NextConcurrent ==
    \/ \E c \in Callers :
          StartCall(c, SharedOpNames, ConcurrentInputs) /\ UNCHANGED otherThanFT
    \/ \E c \in Callers : OpReturns(c) /\ UNCHANGED otherThanFT
    \/ \E c \in Callers : OpRaises(c, OpErrors) /\ UNCHANGED otherThanFT
    \/ \E c \in Callers : SleepReturns(c) /\ UNCHANGED otherThanFT
    \/ Tick /\ UNCHANGED otherThanFT

SpecConcurrent == Init /\ [][NextConcurrent]_vars

\* caller c begins an invocation of the wrapped operation in this step
BeginsInvocation(c) ==
    /\ frame'[c].pc = "await_op"
    /\ frame'[c].invocations # frame[c].invocations \/ frame[c].pc # "await_op"

\* C23: with several calls running on one operation name, while the circuit
\* is open and its timeout has not elapsed no step closes the circuit and
\* no step begins an invocation of the wrapped operation for that name,
\* whatever the calls in flight do.
C23_OpenCircuitHolds ==
    [][\A op \in SharedOpNames :
          OpenNotElapsed(op) =>
              /\ circuit_breakers'[op].is_open
              /\ \A c \in Callers :
                    frame'[c].operation = op => ~BeginsInvocation(c)]_vars

\* while the circuit is open and its timeout has not elapsed no step begins
\* an invocation of the wrapped operation for that name
NoInvocationWhileOpen ==
    [][\A op \in SharedOpNames :
          OpenNotElapsed(op) =>
              \A c \in Callers :
                  frame'[c].operation = op => ~BeginsInvocation(c)]_vars


\* caller c's await of the wrapped operation returns in this step: the
\* call leaves `await operation()` and no error is recorded
OperationSucceeds(c) ==
    /\ frame[c].pc = "await_op"
    /\ frame'[c].pc # "await_op"
    /\ error_records' = error_records

\* caller c's call ends in failure in this step
CallFails(c) ==
    /\ frame[c].pc = "await_op"
    /\ frame'[c].pc = "done"
    /\ error_records' # error_records

\* C24: whenever the wrapped operation succeeds, on the first attempt or
\* after retries, execute_with_fallback returns the operation's own result
\* and not a fallback payload, and right after that step the circuit of the
\* operation name is closed with failure count 0.
C24_SuccessResets ==
    [][\A c \in Callers :
          OperationSucceeds(c) =>
              /\ frame'[c].pc = "done"
              /\ frame'[c].outcome = OpResult
              /\ ~circuit_breakers'[frame[c].operation].is_open
              /\ circuit_breakers'[frame[c].operation].failure_count = 0]_vars

\* a call succeeded at its second attempt on a name whose circuit had
\* counted failures
C24_Witness ==
    \E c \in Callers :
        /\ Finished(c)
        /\ frame[c].outcome = OpResult
        /\ frame[c].invocations = 2
        /\ frame[c].errors_seen # {}
        /\ circuit_breakers[frame[c].operation].exists
        /\ circuit_breakers[frame[c].operation].failure_count = 0
        /\ ~circuit_breakers[frame[c].operation].is_open

\* the circuit of `op` is open and its timeout has elapsed
OpenElapsed(op) ==
    /\ circuit_breakers[op].is_open
    /\ now - circuit_breakers[op].opened_at > circuit_timeout

\* the circuit of `op` was found open after its timeout and no call has
\* ended on it since
HalfOpen(op) ==
    /\ circuit_breakers[op].half_open
    /\ ~circuit_breakers[op].is_open

\* caller c enters execute_with_fallback in this step
CallStarts(c) ==
    /\ frame[c].pc \in {"idle", "done"}
    /\ frame'[c] # frame[c]

\* C25: once a circuit has been open for longer than its timeout, the next
\* call for that name (max_attempts >= 1) invokes the wrapped operation; if
\* the call succeeds the circuit is closed with failure count 0, and if it
\* ends in failure the circuit is open again with the time of that failure
\* as its opening time.
C25_HalfOpenProbe ==
    [][\A c \in SeqCallers :
          LET op == frame'[c].operation
              circuit == circuit_breakers'[op]
          IN  /\ (CallStarts(c) /\ OpenElapsed(op) /\ frame'[c].max_attempts >= 1)
                    => /\ frame'[c].pc = "await_op"
                       /\ frame'[c].invocations = 1
                       /\ circuit.half_open
                       /\ ~circuit.is_open
              /\ (HalfOpen(op) /\ OperationSucceeds(c))
                    => /\ ~circuit.is_open
                       /\ circuit.failure_count = 0
              /\ (HalfOpen(op) /\ CallFails(c))
                    => /\ circuit.is_open
                       /\ circuit.opened_at = now
                       /\ circuit.opened_at > circuit_timeout]_vars

\* the call made after the timeout failed, and the circuit is open again
\* with the later opening time
C25_Witness ==
    \E c \in SeqCallers :
        /\ Finished(c)
        /\ frame[c].invocations >= 1
        /\ frame[c].outcome.kind # "op_result"
        /\ circuit_breakers[frame[c].operation].is_open
        /\ circuit_breakers[frame[c].operation].half_open
        /\ circuit_breakers[frame[c].operation].opened_at > circuit_timeout
        /\ circuit_breakers[frame[c].operation].failure_count = circuit_threshold + 1

\* the call made after the timeout succeeded and closed the circuit
C25_ProbeSucceeded ==
    \E c \in SeqCallers :
        /\ Finished(c)
        /\ frame[c].outcome = OpResult
        /\ now > circuit_timeout
        /\ circuit_breakers[frame[c].operation].exists
        /\ circuit_breakers[frame[c].operation].opened_at = 0
        /\ consecutive_failures[frame[c].operation] = 0
        /\ TotalErrors >= circuit_threshold
        /\ \A op \in OpNames \ {frame[c].operation} : ~circuit_breakers[op].exists


\* the tasks created and not yet ended
Scheduled == {k \in TableIds : task[k] \in {"waiting", "running"}}

\* the number of the batch that holds table k (batch_size >= 1)
BatchOf(k) == (k - 1) \div batch_size

\* C26: no per-table analysis of a later batch is created before every
\* per-table analysis of the batches before it has returned or raised, so
\* at most batch_size analyses are scheduled between two join points.
C26_BatchesDoNotOverlap ==
    batch_size >= 1 =>
        /\ \A k, m \in TableIds :
              (BatchOf(k) < BatchOf(m) /\ task[m] # "not_started")
                  => task[k] \in {"returned", "raised"}
        /\ Cardinality(Scheduled) <= batch_size

\* the second batch is in flight after a first batch of two tables ended,
\* one of them by raising
C26_Witness ==
    /\ batch_size = 2
    /\ batch_pc = "gather"
    /\ batch_i = 2
    /\ task[1] = "raised"
    /\ task[2] = "returned"
    /\ Cardinality(Scheduled) = 2


(***************************************************************************)
(* SpecBatchRun: a batch job from POST /batch to its end.  The background  *)
(* task _run_batch_analysis awaits analyze_tables_batch, whose per-table   *)
(* tasks wait for the semaphore.  Every coroutine that can run is run and  *)
(* every provider call returns or raises: weak fairness of the steps.      *)
(***************************************************************************)
otherThanBatchRun == <<ftVars, clVars, rlVars, pfVars, qaVars>>

\* _run_batch_analysis line 347: analyze_tables_batch is called
RunCallsBatch(j) ==
    /\ aj_task[j] = "analyze"
    /\ CallBatch

\* _run_batch_analysis lines 347-400 once analyze_tables_batch has returned
\* or raised
BatchRunEnds(j) ==
    /\ batch_pc \in {"returned", "raised"}
    /\ IF batch_pc = "raised"
         THEN aj_task[j] = "analyze" /\ BatchRunFails(j) /\ UNCHANGED wf_response
         ELSE BatchRunReturns(j)
    /\ batch_pc' = "done"
    /\ UNCHANGED <<tables, batch_size, max_concurrent, batch_i, task, semaphore,
                   results, failed_tables>>

NextBatchRun ==
    \/ \E j \in BatchJobIds :
          start_batch_analysis(j)
              /\ UNCHANGED <<workflow_jobs, wf_task, baVars, otherThanBatchRun>>
    \/ \E j \in BatchJobIds :
          BatchRunStarts(j)
              /\ UNCHANGED <<workflow_jobs, wf_task, baVars, otherThanBatchRun>>
    \/ \E j \in BatchJobIds :
          RunCallsBatch(j) /\ UNCHANGED <<wfVars, ajVars, otherThanBatchRun>>
    \/ \E k \in TableIds : Acquire(k) /\ UNCHANGED <<wfVars, ajVars, otherThanBatchRun>>
    \/ \E k \in TableIds : TaskEnds(k) /\ UNCHANGED <<wfVars, ajVars, otherThanBatchRun>>
    \/ JoinBatch /\ UNCHANGED <<wfVars, ajVars, otherThanBatchRun>>
    \/ \E j \in BatchJobIds :
          BatchRunEnds(j) /\ UNCHANGED <<workflow_jobs, wf_task, otherThanBatchRun>>

SpecBatchRun == InitBatch /\ [][NextBatchRun]_vars /\ WF_vars(NextBatchRun)

\* C27: for every batch_size and max_concurrent the endpoint accepts, a
\* batch job that was started eventually has status completed or failed.
C27_JobEventuallyEnds ==
    \A j \in BatchJobIds :
        (analysis_jobs[j].status \in {"pending", "running"})
            ~> (analysis_jobs[j].status \in {"completed", "failed"})

\* with max_concurrent >= 1 or no table, a started job eventually ends
EndsWhenSemaphoreAdmits ==
    \A j \in BatchJobIds :
        (analysis_jobs[j].status \in {"pending", "running"}
            /\ (max_concurrent >= 1 \/ tables = <<>>))
            ~> (analysis_jobs[j].status \in {"completed", "failed"})

\* the job is running and every task of its first batch waits for a
\* semaphore of value 0
StuckOnSemaphore ==
    \E j \in BatchJobIds :
        /\ analysis_jobs[j].status = "running"
        /\ batch_pc = "gather"
        /\ max_concurrent = 0
        /\ semaphore = 0
        /\ \A k \in BatchAt(batch_i) : task[k] = "waiting"


(***************************************************************************)
(* SpecAnalyze: TableAnalysisService.analyze_table_comprehensive.  One     *)
(* step per category: _rate_limit, the provider call of _analyze_category  *)
(* (which returns a text or raises) and the parse of the text.  The result *)
(* dict is a function from the category values entered so far.             *)
(***************************************************************************)
MaxRequested == 2

RequestCategories == {"structure", "performance", "indexing"}

\* the `categories` argument: None or a list
CategoryRequests ==
    {NoCategories} \cup
    {CategoryList(list) :
        list \in UNION {[1..n -> RequestCategories] : n \in 0..MaxRequested}}

\* what gemini_service.complete gives for one category: an exception, or a
\* response whose text is one of these
ProviderOutcomes ==
    {[raised |-> TRUE, text |-> <<>>],
     [raised |-> FALSE, text |-> <<Prose, Open, GoodFinding, Close>>],
     [raised |-> FALSE, text |-> <<Prose>>]}

\* _analyze_category: the findings, or the provider's exception
analyze_category(table_id, category, provider) ==
    IF provider.raised THEN [kind |-> "raised", exc |-> "ProviderError"]
    ELSE parse_analysis_response(provider.text, table_id, category)

\* results[key] = value
dict_set(dict, key, value) == (key :> value) @@ dict

\* an except branch that records nothing
on_category_error_skip(results_map, category) == results_map

\* lines 394-396: the except branch of the loop
on_category_error(results_map, category) == dict_set(results_map, category, <<>>)

AnalyzeInit ==
    /\ pf_prev \in [fn : {"request"}, table_id : {"tblA"}, categories : CategoryRequests]
    /\ pf_last = NoCall

\* lines 379-382 and the loop's end when there is no category
AnalyzeStarts ==
    /\ pf_prev.fn = "request"
    /\ pf_last = NoCall
    /\ LET categories == IF pf_prev.categories.none THEN AllCategories
                         ELSE pf_prev.categories.list
       IN  pf_last' = [fn |-> "analyze_table_comprehensive",
                       pc |-> IF categories = <<>> THEN "returned" ELSE "loop",
                       categories |-> categories,
                       results |-> <<>>,
                       outcomes |-> <<>>,
                       analysis_count |-> 0]
    /\ pf_prev' = pf_prev

\* lines 384-396: one iteration of the loop
CategoryDone(provider) ==
    /\ pf_last.fn = "analyze_table_comprehensive"
    /\ pf_last.pc = "loop"
    /\ LET n == Len(pf_last.outcomes) + 1
           category == pf_last.categories[n]
           found == analyze_category(pf_prev.table_id, category, provider)
       IN  pf_last' = [pf_last EXCEPT
               !.results = IF found.kind = "raised"
                             THEN on_category_error(@, category)
                             ELSE dict_set(@, category, found.results),
               !.outcomes = Append(@, found.kind),
               !.analysis_count = IF provider.raised THEN @ ELSE @ + 1,
               !.pc = IF n = Len(pf_last.categories) THEN "returned" ELSE "loop"]
    /\ pf_prev' = pf_prev

InitAnalyze == FTInit /\ CLInit /\ WFInit /\ BAInit /\ RLInit /\ AnalyzeInit /\ QAInit /\ AJInit

NextAnalyze ==
    \/ AnalyzeStarts /\ UNCHANGED otherThanPF
    \/ \E provider \in ProviderOutcomes : CategoryDone(provider) /\ UNCHANGED otherThanPF

SpecAnalyze == InitAnalyze /\ [][NextAnalyze]_vars

Analyzing == pf_last.fn = "analyze_table_comprehensive"

\* the last position of category c among the first n requested
LastOf(c, n) ==
    CHOOSE i \in 1..n :
        /\ pf_last.categories[i] = c
        /\ \A k \in (i + 1)..n : pf_last.categories[k] # c

\* C28: analyze_table_comprehensive never raises on provider or parse
\* errors: every requested category is analysed, also after a failed one;
\* the result has exactly one entry per requested category; a category
\* whose provider call failed maps to the empty list.
C28_CategoryFailuresIsolated ==
    Analyzing =>
        LET n == Len(pf_last.outcomes)
            done == {pf_last.categories[i] : i \in 1..n}
        IN  /\ pf_last.pc \in {"loop", "returned"}
            /\ pf_last.pc = "returned" <=> n = Len(pf_last.categories)
            /\ DOMAIN pf_last.results = done
            /\ \A c \in done :
                  pf_last.outcomes[LastOf(c, n)] = "raised" => pf_last.results[c] = <<>>

\* the call returned after the provider failed for the first category and
\* answered for the second
C28_Witness ==
    /\ Analyzing
    /\ pf_last.pc = "returned"
    /\ pf_last.categories = <<"structure", "performance">>
    /\ pf_last.outcomes = <<"raised", "returned">>
    /\ pf_last.results["structure"] = <<>>
    /\ Len(pf_last.results["performance"]) = 1


\* C29: while a workflow job is running its progress.phase names the step
\* the background task is at, so that status polls see discover, analyze,
\* update (when enabled) in the order of the steps.
C29_PhaseFollowsStep ==
    \A j \in JobIds :
        (workflow_jobs[j].status = "running" /\ wf_task[j].pc \in WorkInFlight)
            => workflow_jobs[j].phase = wf_task[j].pc

\* the phases a status poll can see over the life of a job
PhasesSeen ==
    \A j \in JobIds :
        workflow_jobs[j].exists =>
            workflow_jobs[j].phase \in {"initializing", "starting", "completed"}



(***************************************************************************)
(* SpecProcess: WorkflowOrchestrator._process_results on the analysis      *)
(* results of one or two tables.  analysis_results is the dict in          *)
(* insertion order: a sequence of tables, each with its categories in      *)
(* order, each category with its list of findings.                         *)
(***************************************************************************)
MaxPerTable == 1

\* WorkflowConfig.quality_threshold, in hundredths
quality_threshold == 70

\* the confidence from which a recommendation counts as a top one (line 240)
top_confidence == 80

\* a terse finding or a worked-out one, of each priority and confidence
ProcessFindings ==
    { result \in
        [category : {"structure"}, priority : {"high", "medium", "low"},
         description : {"Bad", "Contact fields are scattered in the table"},
         recommendation : {"Fix it", "Add a lookup field to the table and reduce load by 30%"},
         impact : {"Better"}, effort : {"low"},
         estimated_improvement : {"30% faster data entry"},
         implementation_steps : {<<"s1">>},
         confidence_score : {60, 92}] :
        (result.description = "Bad") <=> (result.recommendation = "Fix it") }

ProcessTableLists == {<<"tbl1">>, <<"tbl1", "tbl2">>}

ResultLists == UNION {[1..n -> ProcessFindings] : n \in 0..MaxPerTable}

\* AnalysisResult(table_id=table_data.table_id, ...): the finding as the
\* analysis of table `id` builds it
WithTableId(result, id) ==
    [category |-> result.category, priority |-> result.priority,
     description |-> result.description, recommendation |-> result.recommendation,
     impact |-> result.impact, effort |-> result.effort,
     estimated_improvement |-> result.estimated_improvement,
     implementation_steps |-> result.implementation_steps,
     confidence_score |-> result.confidence_score, table_id |-> id]

\* the dict of the tables ids, each with the findings lists[i] under the
\* category structure
analysis_results_of(ids, lists) ==
    [i \in 1..Len(ids) |->
        [table_id |-> ids[i],
         table_results |->
            << [category |-> "structure",
                results |-> [k \in 1..Len(lists[i]) |->
                                WithTableId(lists[i][k], ids[i])]] >>]]

\* AnalysisResult.to_dict: dataclasses.asdict, a dict of the fields
to_dict(result) == [field \in DOMAIN result |-> result[field]]

\* lines 194-203: the accumulators before the loops
NoProcessed ==
    [high_priority_issues |-> <<>>, medium_priority_issues |-> <<>>,
     low_priority_issues |-> <<>>, quality_filtered |-> <<>>,
     summary_by_category |->
        [cat \in {AllCategories[i] : i \in 1..Len(AllCategories)} |-> 0],
     table_summaries |-> <<>>]

\* lines 206-214: the summary of a table before its findings
new_table_summary(table) ==
    [table_id |-> table.table_id, total_issues |-> 0, high_priority |-> 0,
     medium_priority |-> 0, low_priority |-> 0,
     categories_analyzed |-> [i \in 1..Len(table.table_results) |->
                                 table.table_results[i].category],
     top_recommendations |-> <<>>]

\* line 223: the quality filter
quality_filter(result) == result.confidence_score < quality_threshold

\* a loop body that counts a finding only once it has passed the filter
process_result_uncounted(acc, result) ==
    IF quality_filter(result)
      THEN [acc EXCEPT !.processed.quality_filtered = Append(@, to_dict(result))]
      ELSE [acc EXCEPT !.table_summary.total_issues = @ + 1,
                       !.table_summary.low_priority = @ + 1,
                       !.processed.low_priority_issues = Append(@, to_dict(result))]

\* lines 220-245: the body of the loop for one finding; acc holds processed and table_summary
process_result(acc, result) ==
    LET counted == [acc EXCEPT !.table_summary.total_issues = @ + 1]
        result_dict == to_dict(result)
        bucketed ==
            IF result.priority = "high"
              THEN [counted EXCEPT
                      !.processed.high_priority_issues = Append(@, result_dict),
                      !.table_summary.high_priority = @ + 1]
            ELSE IF result.priority = "medium"
              THEN [counted EXCEPT
                      !.processed.medium_priority_issues = Append(@, result_dict),
                      !.table_summary.medium_priority = @ + 1]
            ELSE [counted EXCEPT
                      !.processed.low_priority_issues = Append(@, result_dict),
                      !.table_summary.low_priority = @ + 1]
    IN  IF quality_filter(result)
          THEN [counted EXCEPT !.processed.quality_filtered = Append(@, to_dict(result))]
        ELSE IF result.confidence_score >= top_confidence
                /\ result.priority \in {"high", "medium"}
          THEN [bucketed EXCEPT
                  !.table_summary.top_recommendations =
                      Append(@, [category |-> result.category,
                                 recommendation |-> result.recommendation,
                                 confidence |-> result.confidence_score])]
        ELSE bucketed

RECURSIVE process_results_of(_, _)
\* lines 219-245: the findings of one category, in order
process_results_of(acc, category_results) ==
    IF category_results = <<>> THEN acc
    ELSE process_results_of(process_result(acc, Head(category_results)),
                            Tail(category_results))

RECURSIVE process_categories(_, _, _)
\* lines 216-245: the categories of one table; counts is category_counts
process_categories(acc, counts, table_results) ==
    IF table_results = <<>> THEN [acc |-> acc, counts |-> counts]
    ELSE LET entry == Head(table_results)
         IN  process_categories(
                 process_results_of(acc, entry.results),
                 [counts EXCEPT ![entry.category] = @ + Len(entry.results)],
                 Tail(table_results))

RECURSIVE process_tables(_, _, _)
\* lines 205-249: the tables, in order
process_tables(processed, counts, analysis_results) ==
    IF analysis_results = <<>>
      THEN [processed EXCEPT !.summary_by_category = counts]
    ELSE LET table == Head(analysis_results)
             done == process_categories(
                         [processed |-> processed,
                          table_summary |-> new_table_summary(table)],
                         counts, table.table_results)
         IN  process_tables(
                 [done.acc.processed EXCEPT
                     !.table_summaries = Append(@, done.acc.table_summary)],
                 done.counts, Tail(analysis_results))

\* WorkflowOrchestrator._process_results
process_results(analysis_results) ==
    process_tables(NoProcessed, NoProcessed.summary_by_category, analysis_results)

ProcessInit ==
    /\ \E ids \in ProcessTableLists :
          \E lists \in [1..Len(ids) -> ResultLists] :
             pf_prev = [fn |-> "analysis_results",
                        analysis_results |-> analysis_results_of(ids, lists)]
    /\ pf_last = NoCall

ProcessResults ==
    /\ pf_prev.fn = "analysis_results"
    /\ pf_last = NoCall
    /\ pf_last' = [fn |-> "_process_results",
                   processed |-> process_results(pf_prev.analysis_results)]
    /\ pf_prev' = pf_prev

InitProcess == FTInit /\ CLInit /\ WFInit /\ BAInit /\ RLInit /\ ProcessInit /\ QAInit /\ AJInit

NextProcess == ProcessResults /\ UNCHANGED otherThanPF

SpecProcess == InitProcess /\ [][NextProcess]_vars

\* the Quality Gate accepts a finding: none of its six verdicts is invalid
GateAccepts(result) ==
    \A i \in 1..6 : validate_analysis_result(result)[i].result # "invalid"

Processed == pf_last.fn = "_process_results"

\* the findings of a table, over its categories
RECURSIVE FindingsOf(_)
FindingsOf(table_results) ==
    IF table_results = <<>> THEN {}
    ELSE {Head(table_results).results[i] : i \in 1..Len(Head(table_results).results)}
           \cup FindingsOf(Tail(table_results))

Bucketed ==
    LET processed == pf_last.processed
        Range(s) == {s[i] : i \in 1..Len(s)}
    IN  Range(processed.high_priority_issues)
          \cup Range(processed.medium_priority_issues)
          \cup Range(processed.low_priority_issues)

\* C30: after the process step every finding in a priority bucket, and the
\* finding behind every top recommendation of a table, is one the Quality
\* Gate accepts: none of its six verdicts is invalid.
C30_OnlyAcceptedFindings ==
    Processed =>
        /\ \A entry \in Bucketed : GateAccepts(entry)
        /\ \A t \in 1..Len(pf_last.processed.table_summaries) :
              LET summary == pf_last.processed.table_summaries[t]
              IN  \A n \in 1..Len(summary.top_recommendations) :
                     \E result \in FindingsOf(pf_prev.analysis_results[t].table_results) :
                        /\ GateAccepts(result)
                        /\ result.recommendation = summary.top_recommendations[n].recommendation
                        /\ result.confidence_score = summary.top_recommendations[n].confidence

\* what the process step does keep: a bucketed finding has a confidence of
\* at least the configured threshold
BucketedByConfidence ==
    Processed => \A entry \in Bucketed : entry.confidence_score >= quality_threshold

\* a finding with an invalid verdict was bucketed
RejectedFindingBucketed ==
    Processed /\ \E entry \in Bucketed : ~GateAccepts(entry)

\* a finding the Quality Gate accepts was bucketed
AcceptedFindingBucketed ==
    Processed /\ \E entry \in Bucketed : GateAccepts(entry)



(***************************************************************************)
(* SpecCategories: a batch analysis request or a workflow configuration    *)
(* with a `categories` setting, followed down to the provider calls of one *)
(* of its tables.  _run_batch_analysis (routes) and                        *)
(* WorkflowOrchestrator._run_batch_analysis call analyze_tables_batch with *)
(* tables, batch_size and max_concurrent; analyze_single_table calls       *)
(* analyze_table_comprehensive with the table alone.                       *)
(***************************************************************************)
CategoryCarriers == {"BatchAnalysisRequest", "WorkflowConfig"}

CategoriesInit ==
    /\ pf_prev \in [fn : CategoryCarriers, table_id : {"tblA"}, categories : CategoryRequests]
    /\ pf_last = NoCall

\* analyze_single_table, line 422: analyze_table_comprehensive(table_data);
\* the categories parameter takes its default None, so lines 379-380 put
\* list(AnalysisCategory) in its place
analyze_single_table ==
    /\ pf_prev.fn \in CategoryCarriers
    /\ pf_last = NoCall
    /\ LET categories == IF NoCategories.none THEN AllCategories ELSE NoCategories.list
       IN  pf_last' = [fn |-> "analyze_table_comprehensive",
                       pc |-> IF categories = <<>> THEN "returned" ELSE "loop",
                       categories |-> categories,
                       results |-> <<>>,
                       outcomes |-> <<>>,
                       analysis_count |-> 0]
    /\ pf_prev' = pf_prev

InitCategories == FTInit /\ CLInit /\ WFInit /\ BAInit /\ RLInit /\ CategoriesInit /\ QAInit /\ AJInit

NextCategories ==
    \/ analyze_single_table /\ UNCHANGED otherThanPF
    \/ \E provider \in ProviderOutcomes : CategoryDone(provider) /\ UNCHANGED otherThanPF

SpecCategories == InitCategories /\ [][NextCategories]_vars

\* the request or configuration named a list of categories
CategoriesRequested == pf_prev.fn \in CategoryCarriers /\ ~pf_prev.categories.none

\* C31: when the request or configuration names a list of categories, the
\* table is analysed for exactly that list, and every provider call made
\* is for a category of the list.
C31_OnlyRequestedCategories ==
    (CategoriesRequested /\ Analyzing) =>
        /\ pf_last.categories = pf_prev.categories.list
        /\ \A i \in 1..Len(pf_last.outcomes) :
              \E k \in 1..Len(pf_prev.categories.list) :
                 pf_prev.categories.list[k] = pf_last.categories[i]

\* what the code does: every table is analysed for all eight categories
AllCategoriesAnalyzed ==
    (pf_prev.fn \in CategoryCarriers /\ Analyzing) => pf_last.categories = AllCategories

\* a provider call was made for a category outside the requested list
UnrequestedCategoryCalled ==
    /\ CategoriesRequested /\ Analyzing
    /\ pf_prev.categories.list = <<"structure">>
    /\ Len(pf_last.outcomes) >= 2
    /\ pf_last.categories[2] = "normalization"



\* C32: a cancellation request for a pending or running job sets its status
\* to cancelled, refreshes updated_at, and answers 200 with the message
\* 'Workflow cancellation requested'; it does not raise.
C32_CancelActiveJob ==
    [][\A j \in JobIds :
          (CancelStep(j) /\ workflow_jobs[j].exists
                         /\ workflow_jobs[j].status \in {"pending", "running"})
              => /\ workflow_jobs'[j].status = "cancelled"
                 /\ workflow_jobs'[j].updated_at > workflow_jobs[j].updated_at
                 /\ wf_response' = Response("cancel", j, 200,
                                            "Workflow cancellation requested")]_vars

\* what a cancellation of a pending or running job does do: the status is
\* set, updated_at is left alone and the request ends in a NameError
CancelActiveJobRaises ==
    [][\A j \in JobIds :
          (CancelStep(j) /\ workflow_jobs[j].exists
                         /\ workflow_jobs[j].status \in {"pending", "running"})
              => /\ workflow_jobs'[j].status = "cancelled"
                 /\ workflow_jobs'[j].updated_at = workflow_jobs[j].updated_at
                 /\ wf_response' = Response("cancel", j, 500, "NameError")]_vars

\* a running job was cancelled and the request raised
CancelOfRunningJobRaised ==
    \E j \in JobIds :
        /\ workflow_jobs[j].status = "cancelled"
        /\ wf_response = Response("cancel", j, 500, "NameError")



(***************************************************************************)
(* SpecCached: one caller whose calls all name the operation "analysis",   *)
(* the table tblTest and the category structure, with the strategy         *)
(* "cached".  pf_last is history here: whether a call has succeeded.       *)
(***************************************************************************)
CachedInputs == {<<"cached", "absent">>}

otherThanFT_PF == <<clVars, wfVars, baVars, rlVars, qaVars, ajVars>>

\* history: an execute_with_fallback call returned the operation's result
HasSucceeded == [fn |-> "operation_succeeded"]

NextCached ==
    \/ \E c \in SeqCallers : StartCall(c, SharedOpNames, CachedInputs) /\ UNCHANGED otherThanFT
    \/ \E c \in SeqCallers :
          /\ OpReturns(c)
          /\ pf_last' = HasSucceeded
          /\ UNCHANGED <<pf_prev, otherThanFT_PF>>
    \/ \E c \in SeqCallers : OpRaises(c, OpErrors) /\ UNCHANGED otherThanFT
    \/ \E c \in SeqCallers : SleepReturns(c) /\ UNCHANGED otherThanFT
    \/ Tick /\ UNCHANGED otherThanFT

SpecCached == Init /\ [][NextCached]_vars

\* the call of c ended after every attempt of its operation failed
AllAttemptsFailed(c) ==
    /\ Finished(c)
    /\ frame[c].invocations >= 1
    /\ frame[c].outcome.kind # "op_result"

\* C33: a call with strategy "cached" whose attempts all fail returns the
\* result of an earlier successful call for the same table and category,
\* tagged as a cached fallback, when there was such a call, and the
\* simplified placeholder when there was none.
C33_CachedReturnsEarlierResult ==
    \A c \in SeqCallers :
        (AllAttemptsFailed(c) /\ frame[c].fallback_strategy = "cached") =>
            IF pf_last = HasSucceeded
              THEN frame[c].outcome = Payload("cached_results")
              ELSE frame[c].outcome = Payload("simplified_analysis")

\* what the code keeps: nothing ever enters the cache
CacheStaysEmpty == cache_store = {}

\* what such a call does: no cached result is returned, with or without an
\* earlier success
CachedNeverServes ==
    \A c \in SeqCallers :
        (AllAttemptsFailed(c) /\ frame[c].fallback_strategy = "cached") =>
            frame[c].outcome.fallback_type # "cached_results"

\* a call failed after an earlier one had succeeded, and got no cached result
FailedAfterSuccess ==
    \E c \in SeqCallers :
        /\ AllAttemptsFailed(c) /\ frame[c].fallback_strategy = "cached"
        /\ pf_last = HasSucceeded
        /\ frame[c].outcome # Payload("cached_results")



\* the strategy class whose execute() builds what a finished call returns,
\* by the path taken through use_fallback
ProducedBy(f) ==
    IF f.fallback_strategy = "cached" /\ <<"tblTest", "structure">> \in cache_store
      THEN "cached_results"
    ELSE IF f.fallback_strategy = "partial" /\ f.partial = "array"
      THEN "partial_results"
    ELSE "simplified_analysis"

\* C34: every value execute_with_fallback returns that is not the wrapped
\* operation's own result carries fallback_used = true and a fallback_type
\* naming the strategy that produced it, whichever strategy was asked for
\* and whichever delegated to which.
C34_FallbackValuesTagged ==
    \A c \in Callers :
        (Finished(c) /\ frame[c].outcome.kind \notin {"op_result", "raised"}) =>
            /\ frame[c].outcome.fallback_used
            /\ frame[c].outcome.fallback_type = ProducedBy(frame[c])

\* a call whose operation failed returned the partial strategy's value
C34_Witness ==
    \E c \in Callers :
        /\ Finished(c) /\ frame[c].invocations >= 1
        /\ frame[c].fallback_strategy = "partial"
        /\ frame[c].outcome.kind = "fallback"
        /\ frame[c].outcome.fallback_type = "partial_results"

\* the calls that returned a fallback value are those of the partial
\* strategy with a parsable partial response: every other fallback path
\* ends in SimplifiedAnalysisFallback.execute, which raises
OnlyPartialReturns ==
    \A c \in Callers :
        (Finished(c) /\ frame[c].outcome.kind = "fallback") =>
            frame[c].fallback_strategy = "partial" /\ frame[c].partial = "array"



\* ErrorCategory.<member>.value: the member's name in lower case, as an
\* explicit table (f @@ <<>> is f)
category_value == [cat \in ErrorCategory |-> Lower(cat)] @@ <<>>

\* ErrorHandlingService.get_error_summary, its status, total_errors and
\* category_breakdown (keyed by the category's value; a category without a
\* record has no key)
get_error_summary(records) ==
    IF SumOver(records, ErrorCategory) = 0
      THEN [status |-> "no_errors", total_errors |-> 0]
      ELSE [status |-> "errors_recorded",
            total_errors |-> SumOver(records, ErrorCategory),
            category_breakdown |->
                [value \in {category_value[cat] : cat \in {k \in ErrorCategory : records[k] > 0}} |->
                    records[CHOOSE cat \in ErrorCategory : category_value[cat] = value]]]

\* the sum of the counts of a category breakdown
BreakdownSum(summary) ==
    IF summary.status = "no_errors" THEN 0
    ELSE SumOver(summary.category_breakdown, DOMAIN summary.category_breakdown)

\* in this step an invocation of caller c's operation ends in an exception
FailedInvocation(c) ==
    /\ frame[c].pc = "await_op"
    /\ frame'[c].pc # "await_op"
    /\ frame'[c].outcome.kind # "op_result"

\* in this step caller c's call finds the circuit open and ends
ShortCircuited(c) ==
    /\ frame'[c] # frame[c]
    /\ frame[c].pc # "await_op"
    /\ frame'[c].pc = "done"
    /\ frame'[c].broke_open

\* C35: the error log only grows, by exactly one record at each failed
\* invocation of a wrapped operation and by none at any other step; a call
\* short-circuited by an open circuit leaves the log and the circuit's
\* failure count and opening time as they were; and get_error_summary's
\* total_errors is the number of records, equal to the sum of its category
\* breakdown.
C35_LogAppendOnly ==
    [][/\ \A cat \in ErrorCategory : error_records'[cat] >= error_records[cat]
       /\ TotalErrors' =
             TotalErrors + Cardinality({c \in Callers : FailedInvocation(c)})
       /\ \A c \in Callers :
             ShortCircuited(c) =>
                LET op == frame'[c].operation
                IN  /\ error_records' = error_records
                    /\ circuit_breakers'[op].failure_count = circuit_breakers[op].failure_count
                    /\ circuit_breakers'[op].opened_at = circuit_breakers[op].opened_at
       /\ get_error_summary(error_records').total_errors = TotalErrors'
       /\ BreakdownSum(get_error_summary(error_records')) = TotalErrors']_vars

\* a call was short-circuited after the log had taken the records of the
\* failures that opened the circuit, of two categories
C35_Witness ==
    \E c \in Callers :
        /\ Finished(c) /\ frame[c].broke_open /\ frame[c].invocations = 0
        /\ TotalErrors >= circuit_threshold
        /\ Cardinality(DOMAIN get_error_summary(error_records).category_breakdown) = 2



\* C36: with a fallback strategy name that is not registered, a call whose
\* retry loop has ended raises an error of the wrapped operation (its most
\* recent one), also when the loop ended at the first attempt because the
\* circuit was open.
C36_UnknownStrategyRaisesLastError ==
    \A c \in Callers :
        (/\ Finished(c)
         /\ frame[c].fallback_strategy \notin fallback_strategies
         /\ frame[c].max_attempts >= 1
         /\ frame[c].outcome.kind # "op_result")
        => /\ frame[c].outcome.kind = "raised"
           /\ \E error \in OpErrors : frame[c].outcome.exc = error.type

\* what holds: the operation's last error is raised when the operation was
\* invoked in this call, and TypeError when it was not
UnknownStrategyRaises ==
    \A c \in Callers :
        (/\ Finished(c)
         /\ frame[c].fallback_strategy \notin fallback_strategies
         /\ frame[c].outcome.kind # "op_result")
        => frame[c].outcome =
              IF frame[c].invocations >= 1 THEN Raises(frame[c].last_error.type)
              ELSE Raises("TypeError")

\* a call with an unregistered strategy found the circuit open at its
\* first attempt and raised TypeError
OpenCircuitRaisedTypeError ==
    \E c \in Callers :
        /\ Finished(c) /\ frame[c].started_open /\ frame[c].max_attempts >= 1
        /\ frame[c].fallback_strategy = "no_such_strategy"
        /\ frame[c].outcome = Raises("TypeError")



(***************************************************************************)
(* SpecDiscover: WorkflowOrchestrator._discover_tables.  The coroutine     *)
(* yields at each _call_mcp_tool; a call returns the JSON the code reads   *)
(* (a dict with "bases", or with "tables" whose entries have an id and a   *)
(* name) or raises.  pf_prev is the call's argument, pf_last the           *)
(* coroutine's frame with, as history, what each schema fetch gave.        *)
(***************************************************************************)
MaxBases == 2
MaxSchemaTables == 2

BaseIds == {"appA", "appB"}
SchemaTableIds == {"tbl1", "tbl2"}

\* the base_ids argument: None or a list
BaseIdArguments ==
    {[none |-> TRUE, list |-> <<>>]} \cup
    {[none |-> FALSE, list |-> list] :
        list \in UNION {[1..n -> BaseIds] : n \in 0..MaxBases}}

\* the "bases" of an airtable_list_bases response, as ids
BaseListings == UNION {[1..n -> BaseIds] : n \in 0..MaxBases}

\* the "tables" of an airtable_get_schema response, as ids
SchemaListings == UNION {[1..n -> SchemaTableIds] : n \in 0..MaxSchemaTables}

\* TableMetadata(base_id=..., table_id=..., record_count=None)
TableDescriptor(base_id, table_id) ==
    [base_id |-> base_id, table_id |-> table_id, record_count |-> "None"]

DiscoverInit ==
    /\ pf_prev \in [fn : {"base_ids"}, base_ids : BaseIdArguments]
    /\ pf_last = NoCall

\* the frame when the loop over base_ids reaches position b
at_base(f, b) ==
    [f EXCEPT !.b = b, !.schema = <<>>, !.t = 1,
              !.pc = IF b > Len(f.base_ids) THEN "returned" ELSE "get_schema"]

\* lines 117-123: the call begins; with base_ids None it lists the bases
DiscoverStarts ==
    /\ pf_prev.fn = "base_ids"
    /\ pf_last = NoCall
    /\ LET f == [fn |-> "_discover_tables", pc |-> "list_bases",
                 base_ids |-> pf_prev.base_ids.list, b |-> 1,
                 schema |-> <<>>, t |-> 1, tables |-> <<>>,
                 fetched |-> <<>>, failed |-> {}, list_failed |-> FALSE]
       IN  pf_last' = IF pf_prev.base_ids.none THEN f ELSE at_base(f, 1)
    /\ pf_prev' = pf_prev

\* lines 121-122: airtable_list_bases returns
ListBasesReturns(bases) ==
    /\ pf_last.fn = "_discover_tables" /\ pf_last.pc = "list_bases"
    /\ pf_last' = at_base([pf_last EXCEPT !.base_ids = bases], 1)
    /\ pf_prev' = pf_prev

\* lines 160-162: airtable_list_bases raises; the outer except re-raises
ListBasesRaises ==
    /\ pf_last.fn = "_discover_tables" /\ pf_last.pc = "list_bases"
    /\ pf_last' = [pf_last EXCEPT !.pc = "raised", !.list_failed = TRUE]
    /\ pf_prev' = pf_prev

\* the frame when the loop over the schema's tables reaches position t
at_table(f, t) ==
    IF t > Len(f.schema) THEN at_base(f, f.b + 1)
    ELSE [f EXCEPT !.t = t, !.pc = "list_records"]

\* lines 127 and 130: airtable_get_schema returns for the base at b
GetSchemaReturns(schema_tables) ==
    /\ pf_last.fn = "_discover_tables" /\ pf_last.pc = "get_schema"
    /\ LET base_id == pf_last.base_ids[pf_last.b]
       IN  pf_last' = at_table([pf_last EXCEPT
                                   !.schema = schema_tables,
                                   !.fetched = Append(@, [base_id |-> base_id,
                                                          tables |-> schema_tables])], 1)
    /\ pf_prev' = pf_prev

\* a schema failure that ends the discovery
on_schema_error_fatal(f) == [f EXCEPT !.pc = "raised"]

\* lines 154-156: the except branch of one base: log and continue
on_schema_error(f) == at_base(f, f.b + 1)

\* airtable_get_schema raises for the base at b
GetSchemaRaises ==
    /\ pf_last.fn = "_discover_tables" /\ pf_last.pc = "get_schema"
    /\ pf_last' = on_schema_error([pf_last EXCEPT
                                      !.failed = @ \cup {pf_last.base_ids[pf_last.b]}])
    /\ pf_prev' = pf_prev

\* lines 132-152: airtable_list_records returns or raises for the table at
\* t (record_count is None either way) and the descriptor is appended
ListRecordsEnds(raised) ==
    /\ pf_last.fn = "_discover_tables" /\ pf_last.pc = "list_records"
    /\ LET base_id == pf_last.base_ids[pf_last.b]
           table_id == pf_last.schema[pf_last.t]
       IN  pf_last' = at_table([pf_last EXCEPT
                                   !.tables = Append(@, TableDescriptor(base_id, table_id))],
                               pf_last.t + 1)
    /\ pf_prev' = pf_prev

InitDiscover == FTInit /\ CLInit /\ WFInit /\ BAInit /\ RLInit /\ DiscoverInit /\ QAInit /\ AJInit

NextDiscover ==
    \/ DiscoverStarts /\ UNCHANGED otherThanPF
    \/ \E bases \in BaseListings : ListBasesReturns(bases) /\ UNCHANGED otherThanPF
    \/ ListBasesRaises /\ UNCHANGED otherThanPF
    \/ \E schema_tables \in SchemaListings :
          GetSchemaReturns(schema_tables) /\ UNCHANGED otherThanPF
    \/ GetSchemaRaises /\ UNCHANGED otherThanPF
    \/ \E raised \in BOOLEAN : ListRecordsEnds(raised) /\ UNCHANGED otherThanPF

SpecDiscover == InitDiscover /\ [][NextDiscover]_vars

Discovering == pf_last.fn = "_discover_tables"

RECURSIVE DescriptorsOf(_)
\* the descriptors of the tables of the schemas fetched, in order
DescriptorsOf(fetched) ==
    IF fetched = <<>> THEN <<>>
    ELSE [i \in 1..Len(Head(fetched).tables) |->
             TableDescriptor(Head(fetched).base_id, Head(fetched).tables[i])]
           \o DescriptorsOf(Tail(fetched))

\* C37: a failed schema fetch does not fail discovery: the call returns a
\* descriptor for every table of every base whose schema fetch succeeded;
\* discovery raises only when listing the bases failed.
C37_SchemaFailureSkipped ==
    Discovering =>
        /\ pf_last.pc = "raised" => pf_last.list_failed
        /\ pf_last.pc = "returned" =>
              /\ pf_last.tables = DescriptorsOf(pf_last.fetched)
              /\ Len(pf_last.fetched) + Cardinality(pf_last.failed) >=
                     Cardinality({pf_last.base_ids[i] : i \in 1..Len(pf_last.base_ids)})

\* discovery returned the tables of appB after the schema fetch of appA
\* had failed
C37_Witness ==
    /\ Discovering /\ pf_last.pc = "returned"
    /\ pf_last.base_ids = <<"appA", "appB">>
    /\ pf_last.failed = {"appA"}
    /\ pf_last.tables = <<TableDescriptor("appB", "tbl1"), TableDescriptor("appB", "tbl2")>>



(***************************************************************************)
(* SpecUpdate: WorkflowOrchestrator._update_airtable_metadata on the       *)
(* summaries of up to MaxSummaries tables.  The coroutine yields at each   *)
(* _call_mcp_tool: one lookup per table, then one airtable_update_records  *)
(* for the records found and one airtable_create_records for the others.   *)
(* pf_prev is the argument; pf_last the frame, with the failures met as    *)
(* history.                                                                *)
(***************************************************************************)
MaxSummaries == 3

\* what the lookup of a table's metadata record gives: a record, no
\* record, or an exception
LookupOutcomes == {"found", "missing", "raised"}

UpdateInit ==
    /\ pf_prev \in [fn : {"table_summaries"}, count : 0..MaxSummaries]
    /\ pf_last = NoCall

\* the entries of `updates` with an id (kind "found") or without ("missing")
RECURSIVE CountOf(_, _)
CountOf(kind, updates) ==
    IF updates = <<>> THEN 0
    ELSE (IF Head(updates) = kind THEN 1 ELSE 0) + CountOf(kind, Tail(updates))

\* lines 313-343: where the call goes once the batch at `stage` is dealt
\* with: the update batch if there are records to update, then the create
\* batch if there are records to create, then the return
after_stage(f, stage) ==
    IF stage = "lookup" /\ CountOf("found", f.updates) > 0
      THEN [f EXCEPT !.pc = "update_records"]
    ELSE IF stage \in {"lookup", "update_records"} /\ CountOf("missing", f.updates) > 0
      THEN [f EXCEPT !.pc = "create_records"]
    ELSE [f EXCEPT !.pc = "returned"]

\* the frame when the loop over the summaries reaches position i
at_summary(f, i) ==
    IF i > f.count THEN after_stage(f, "lookup")
    ELSE [f EXCEPT !.i = i, !.pc = "lookup"]

\* lines 255-265: the call begins
UpdateStarts ==
    /\ pf_prev.fn = "table_summaries"
    /\ pf_last = NoCall
    /\ pf_last' = at_summary(
          [fn |-> "_update_airtable_metadata", pc |-> "lookup",
           count |-> pf_prev.count, i |-> 1, updates |-> <<>>,
           update_results |-> [updated_records |-> 0, failed_updates |-> 0,
                               errors |-> <<>>],
           lookups_failed |-> 0, batches_failed |-> 0], 1)
    /\ pf_prev' = pf_prev

\* lines 279-309: the lookup of the table at i ends
LookupEnds(outcome) ==
    /\ pf_last.fn = "_update_airtable_metadata" /\ pf_last.pc = "lookup"
    /\ pf_last' = at_summary(
          IF outcome = "raised"
            THEN [pf_last EXCEPT
                     !.update_results.errors = Append(@, "Query failed"),
                     !.lookups_failed = @ + 1]
            ELSE [pf_last EXCEPT !.updates = Append(@, outcome)],
          pf_last.i + 1)
    /\ pf_prev' = pf_prev

\* a failed batch that is logged and not counted
on_batch_error_uncounted(results_now, batch_len, text) ==
    [results_now EXCEPT !.errors = Append(@, text)]

\* lines 326-329 and 340-343: the except branch of a batch call
on_batch_error(results_now, batch_len, text) ==
    [results_now EXCEPT !.failed_updates = @ + batch_len,
                        !.errors = Append(@, text)]

\* lines 318-329 and 332-343: the batch call of `stage` for the entries of
\* `kind` returns or raises
batch_ends(f, stage, kind, text, raised) ==
    after_stage(
        IF raised
          THEN [f EXCEPT
                  !.update_results = on_batch_error(@, CountOf(kind, f.updates), text),
                  !.batches_failed = @ + 1]
          ELSE [f EXCEPT
                  !.update_results.updated_records = @ + CountOf(kind, f.updates)],
        stage)

\* airtable_update_records ends
UpdateRecordsEnds(raised) ==
    /\ pf_last.fn = "_update_airtable_metadata" /\ pf_last.pc = "update_records"
    /\ pf_last' = batch_ends(pf_last, "update_records", "found", "Update failed", raised)
    /\ pf_prev' = pf_prev

\* airtable_create_records ends
CreateRecordsEnds(raised) ==
    /\ pf_last.fn = "_update_airtable_metadata" /\ pf_last.pc = "create_records"
    /\ pf_last' = batch_ends(pf_last, "create_records", "missing", "Create failed", raised)
    /\ pf_prev' = pf_prev

InitUpdate == FTInit /\ CLInit /\ WFInit /\ BAInit /\ RLInit /\ UpdateInit /\ QAInit /\ AJInit

NextUpdate ==
    \/ UpdateStarts /\ UNCHANGED otherThanPF
    \/ \E outcome \in LookupOutcomes : LookupEnds(outcome) /\ UNCHANGED otherThanPF
    \/ \E raised \in BOOLEAN : UpdateRecordsEnds(raised) /\ UNCHANGED otherThanPF
    \/ \E raised \in BOOLEAN : CreateRecordsEnds(raised) /\ UNCHANGED otherThanPF

SpecUpdate == InitUpdate /\ [][NextUpdate]_vars

Updating == pf_last.fn = "_update_airtable_metadata"

\* C38: the update step does not raise; when it returns,
\* updated_records + failed_updates + the number of failed lookups is the
\* number of table summaries; and at every point the errors list has one
\* entry per failure met so far.
C38_UpdateAccountsForEveryTable ==
    Updating =>
        /\ pf_last.pc \in {"lookup", "update_records", "create_records", "returned"}
        /\ Len(pf_last.update_results.errors) =
              pf_last.lookups_failed + pf_last.batches_failed
        /\ pf_last.pc = "returned" =>
              pf_last.update_results.updated_records
                + pf_last.update_results.failed_updates
                + pf_last.lookups_failed = pf_last.count

\* the step returned after one lookup failed, the update batch failed and
\* the create batch went through
C38_Witness ==
    /\ Updating /\ pf_last.pc = "returned"
    /\ pf_last.count = 3
    /\ pf_last.lookups_failed = 1
    /\ pf_last.update_results =
          [updated_records |-> 1, failed_updates |-> 1,
           errors |-> <<"Query failed", "Update failed">>]



\* how many times x stands in the list
Occurrences(x, list) == Cardinality({i \in 1..Len(list) : list[i] = x})

\* the findings handed to the process step, over the tables
RECURSIVE AllFindings(_)
AllFindings(analysis_results) ==
    IF analysis_results = <<>> THEN <<>>
    ELSE Head(analysis_results).table_results[1].results
           \o AllFindings(Tail(analysis_results))

\* C39: the process step puts every finding in exactly one of the lists
\* quality_filtered, high_priority_issues, medium_priority_issues and
\* low_priority_issues, and each table's total_issues is its high_priority
\* + medium_priority + low_priority plus the number of its findings in
\* quality_filtered.
C39_EveryFindingInOneList ==
    Processed =>
        LET processed == pf_last.processed
            given == AllFindings(pf_prev.analysis_results)
            lists == << processed.quality_filtered, processed.high_priority_issues,
                        processed.medium_priority_issues, processed.low_priority_issues >>
        IN  /\ Len(lists[1]) + Len(lists[2]) + Len(lists[3]) + Len(lists[4]) = Len(given)
            /\ \A n \in 1..Len(given) :
                  /\ Cardinality({k \in 1..4 : Occurrences(given[n], lists[k]) > 0}) = 1
                  /\ \E k \in 1..4 :
                        Occurrences(given[n], lists[k]) = Occurrences(given[n], given)
            /\ \A t \in 1..Len(processed.table_summaries) :
                  LET summary == processed.table_summaries[t]
                  IN  summary.total_issues =
                         summary.high_priority + summary.medium_priority
                           + summary.low_priority
                           + Cardinality({i \in 1..Len(processed.quality_filtered) :
                                 processed.quality_filtered[i].table_id = summary.table_id})

\* two tables were processed: the finding of one was filtered, the finding
\* of the other entered the high priority list
C39_Witness ==
    /\ Processed
    /\ Len(pf_last.processed.table_summaries) = 2
    /\ Len(pf_last.processed.quality_filtered) = 1
    /\ Len(pf_last.processed.high_priority_issues) = 1
    /\ pf_last.processed.quality_filtered[1].table_id = "tbl1"
    /\ pf_last.processed.table_summaries[1].total_issues = 1


(***************************************************************************)
(* The overall score of a finding as a weighted mean of its six checks.    *)
(***************************************************************************)
\* the scores of the six checks, in hundredths
CheckScores ==
    { Hundredths(pf_last.quality_checks[i].score) : i \in 1..Len(pf_last.quality_checks) }

LowestScore == CHOOSE x \in CheckScores : \A y \in CheckScores : x <= y

HighestScore == CHOOSE x \in CheckScores : \A y \in CheckScores : x >= y

\* sum of score * weight, weights 0.30, 0.25, 0.20, 0.15, 0.10 and the default
\* 0.10 in twentieths
WeightedSum ==
    6 * Hundredths(CheckNamed("confidence_score").score)
      + 5 * Hundredths(CheckNamed("content_quality").score)
      + 4 * Hundredths(CheckNamed("actionability").score)
      + 3 * Hundredths(CheckNamed("specificity").score)
      + 2 * Hundredths(CheckNamed("consistency").score)
      + 2 * Hundredths(CheckNamed("category_alignment").score)

\* C40: the overall score of a finding is the sum of check score times weight
\* over the sum of the weights (0.30 confidence, 0.25 content, 0.20
\* actionability, 0.15 specificity, 0.10 consistency, 0.10 category
\* alignment); it lies between the lowest and the highest of the six check
\* scores, within [0,1], and is >= 0.8 when all six checks are valid.
C40_OverallScoreWeightedMean ==
    Validated =>
        /\ Len(pf_last.quality_checks) = 6
        /\ pf_last.overall_score.num * 22 = WeightedSum * pf_last.overall_score.den
        /\ pf_last.overall_score.den > 0
        /\ ~ScoreBelow(pf_last.overall_score, LowestScore)
        /\ ~ScoreAbove(pf_last.overall_score, HighestScore)
        /\ ~ScoreBelow(pf_last.overall_score, 0)
        /\ ~ScoreAbove(pf_last.overall_score, 100)
        /\ AllChecksValid => ~ScoreBelow(pf_last.overall_score, 80)

\* six valid checks of different scores: the overall score is strictly
\* between the lowest and the highest, and at least 0.8
C40_Witness ==
    /\ Validated
    /\ AllChecksValid
    /\ LowestScore < HighestScore
    /\ ScoreAbove(pf_last.overall_score, LowestScore)
    /\ ScoreBelow(pf_last.overall_score, HighestScore)
    /\ ScoreAbove(pf_last.overall_score, 80)


(***************************************************************************)
(* SpecRetry: one caller of execute_with_fallback whose operation raises   *)
(* errors of every category _categorize_error can give, and a validation   *)
(* failure.  pf_last is history here: the call before the current one.     *)
(***************************************************************************)
\* what the wrapped operation may raise: TIMEOUT, API_LIMIT, AUTHENTICATION,
\* PARSING, NETWORK, RESOURCE, UNKNOWN, and a validation failure
RetryErrors ==
    {Err("TimeoutError", "Request timed out"),
     Err("Exception", "Rate limit exceeded"),
     Err("Exception", "Unauthorized"),
     Err("ValueError", "Failed to parse response"),
     Err("ConnectionError", "Connection refused"),
     Err("MemoryError", "Out of memory"),
     Err("Exception", "Simulated failure"),
     Err("ValidationError", "Validation failed")}

\* the caller starts no further call once this many errors are recorded
MaxRetryErrors == 2

RetryOpNames == {"analysis"}
RetryInputs == {<<"partial", "array">>}

NoEarlierCall ==
    [fn |-> "execute_with_fallback", finished |-> FALSE, max_attempts |-> 0,
     errors_seen |-> {}, invocations |-> 0, broke_open |-> FALSE,
     returned_result |-> FALSE]

\* history: what is known of a call when the caller starts the next one
EarlierCall(f) ==
    [fn |-> "execute_with_fallback", finished |-> f.pc = "done",
     max_attempts |-> f.max_attempts, errors_seen |-> f.errors_seen,
     invocations |-> f.invocations, broke_open |-> f.broke_open,
     returned_result |-> f.outcome.kind = "op_result"]

NextRetry ==
    \/ \E c \in SeqCallers :
          /\ TotalErrors < MaxRetryErrors
          /\ StartCall(c, RetryOpNames, RetryInputs)
          /\ pf_last' = EarlierCall(frame[c])
          /\ UNCHANGED <<pf_prev, otherThanFT_PF>>
    \/ \E c \in SeqCallers : OpReturns(c) /\ UNCHANGED otherThanFT
    \/ \E c \in SeqCallers : OpRaises(c, RetryErrors) /\ UNCHANGED otherThanFT
    \/ \E c \in SeqCallers : SleepReturns(c) /\ UNCHANGED otherThanFT
    \/ Tick /\ UNCHANGED otherThanFT

SpecRetry == Init /\ [][NextRetry]_vars

\* C9: with max_attempts >= 2 and the circuit closed, a call whose operation
\* fails with an AUTHENTICATION or VALIDATION error invokes it exactly once
\* (the call ends at that error), and a call whose operation fails only
\* with errors of the other categories invokes it at least twice.
NonRetryable == {"AUTHENTICATION", "VALIDATION"}

C9_RetryByCategory ==
    \A c \in Callers :
        LET f == frame[c]
        IN  /\ f.errors_seen \cap NonRetryable # {} => Finished(c)
            /\ (/\ Finished(c) /\ f.max_attempts >= 2 /\ ~f.broke_open
                /\ f.errors_seen # {})
               => /\ f.errors_seen \subseteq NonRetryable => f.invocations = 1
                  /\ f.errors_seen \cap NonRetryable = {} => f.invocations >= 2

\* a call ended at its first invocation on an AUTHENTICATION error, and the
\* next call, whose operation failed with a PARSING and a RESOURCE error
\* (the categories of neither list of _should_retry), made two invocations
C9_Witness ==
    \E c \in SeqCallers :
        /\ pf_last.fn = "execute_with_fallback"
        /\ pf_last.finished /\ pf_last.max_attempts >= 2 /\ ~pf_last.broke_open
        /\ pf_last.errors_seen = {"AUTHENTICATION"}
        /\ pf_last.invocations = 1
        /\ Finished(c) /\ frame[c].max_attempts >= 2 /\ ~frame[c].broke_open
        /\ frame[c].errors_seen = {"PARSING", "RESOURCE"}
        /\ frame[c].invocations = 2
        /\ frame[c].outcome.kind # "op_result"

\* no error is classified VALIDATION: a validation failure is UNKNOWN
NeverClassifiedValidation == error_records["VALIDATION"] = 0

====
